---- MODULE Spec2Model ----
(***************************************************************************)
(* A model of the abstract AVL tree template of src/avl_tree.h             *)
(* (base_avl_tree and its iterator).                                       *)
(*                                                                         *)
(* The abstractor (node storage, comparison, read-error flag) is the       *)
(* consumer's.  It is modelled as a memory record                          *)
(*   [root, lt, gt, bf, err, n, w, failAt, kind, ub, rot, thr]             *)
(* lt, gt and bf are the three engine-owned fields of every node, err is   *)
(* the latched read_error flag, n and w count the abstractor reads and     *)
(* writes the current operation has made, failAt is the read at which the  *)
(* storage fails in this operation (0: never), kind says what sort of read *)
(* failed, and ub records that the operation read an uninitialised bit or  *)
(* local, or indexed a bitset or path array out of range.  rot is the list *)
(* of the calls of balance the operation has made: the node each was given *)
(* and the fields of the nodes as it found them.  thr is the list of the   *)
(* links remove has overwritten with the parent of their node: the node    *)
(* and the side (up: the greater link).                                    *)
(***************************************************************************)
EXTENDS Integers, Sequences, FiniteSets, TLC

\* ------------------------------------------------------------ bounds ----

\* Keys are 1..MaxKey.
MaxKey == 7

\* Keys 2, 4, .., 2 * MaxTwin have a second node (for inserts of a key that
\* is already there, and for subst).
MaxTwin == 1

\* Keys used by the specification of the searches.
MaxSearchKey == 6

\* Keys used by the specification with failing reads.
MaxErrKey == 4

\* Keys used by the specification with an iterator.
MaxIterKey == 5

\* build is given sequences of nodes of keys 1..MaxBuildKey (at least MaxKey).
MaxBuildKey == 10

\* The max_depth template parameter chosen by the consumer.
max_depth == 4

\* --------------------------------------------------------- constants ----

EQUAL == 1
LESS == 2
GREATER == 4
LESS_EQUAL == 3
GREATER_EQUAL == 5

\* The content of a bit (or of a path_h entry) nothing has written yet.
Uninit == 2
NoHandle == -1

null == 0

\* Handles: h in 1..MaxKey is the first node of key h, MaxKey + j the second
\* node of key 2 * j.  Slot 0 (null) exists so that every read is defined.
\* The handles after NumNodes are the nodes of the keys after MaxKey, which
\* only build and the inserts in ascending order are given.
NumNodes == MaxKey + MaxTwin
Nodes == 1..NumNodes
Handles == 0..(MaxBuildKey + MaxTwin)
Keys == 1..MaxKey

KeyOf(h) ==
  IF h <= MaxKey THEN h
  ELSE IF h <= NumNodes THEN 2 * (h - MaxKey)
  ELSE h - MaxTwin

\* One node of every key 1..MaxBuildKey.
BuildNodes == Keys \cup ((NumNodes + 1)..(MaxBuildKey + MaxTwin))

NodesUpTo(k) == {h \in Nodes : KeyOf(h) <= k}

compare_key_node(k, h) == k - KeyOf(h)
compare_node_node(h1, h2) == KeyOf(h1) - KeyOf(h2)

HasBit(st, b) == (st \div b) % 2 = 1

\* !((a ^ b) & MASK_HIGH_BIT): a and b have the same sign bit.
SameSign(a, b) == (a < 0) = (b < 0)

\* ------------------------------------------------------- abstractor ----

\* One abstractor read of the given kind: "access" (get_less / get_greater
\* with access = true), "hint" (access = false), "bf" (get_balance_factor)
\* or "seq" (build taking a node from its sequence).
\* The read that is number failAt latches read_error.
Rd(m, k) ==
  LET hit == (m.n + 1 = m.failAt)
  IN [m EXCEPT !.n = m.n + 1,
               !.err = m.err \/ hit,
               !.kind = IF hit THEN k ELSE m.kind]

\* The writes; w counts them, and bfw is the set of the values
\* set_balance_factor was called with.
set_lt(m, h, v) == [m EXCEPT !.lt[h] = v, !.w = m.w + 1]
set_gt(m, h, v) == [m EXCEPT !.gt[h] = v, !.w = m.w + 1]
set_bf(m, h, v) ==
  [m EXCEPT !.bf[h] = v, !.w = m.w + 1, !.bfw = m.bfw \cup {v}]
set_root(m, h) == [m EXCEPT !.root = h, !.w = m.w + 1]

Ub(m, cond) == [m EXCEPT !.ub = m.ub \/ cond]

\* set_lt(dst, get_lt(src, false)) and its like: a link or balance factor
\* handed from one node to another.
link_lt_from_lt(m, dst, src) == set_lt(Rd(m, "hint"), dst, m.lt[src])
link_lt_from_gt(m, dst, src) == set_lt(Rd(m, "hint"), dst, m.gt[src])
link_gt_from_lt(m, dst, src) == set_gt(Rd(m, "hint"), dst, m.lt[src])
link_gt_from_gt(m, dst, src) == set_gt(Rd(m, "hint"), dst, m.gt[src])
copy_bf(m, dst, src) == set_bf(Rd(m, "bf"), dst, m.bf[src])

\* An operation that returns early: null after a read error or when the
\* key is not there, or the node r.
Return(m, r) == [done |-> TRUE, m |-> m, ret |-> r]
Fail(m) == Return(m, null)

\* bset: "Does not have to initialize bits."
NewBset == [i \in 0..(max_depth - 1) |-> Uninit]
BsWrite(b, i, v) ==
  IF i \in DOMAIN b THEN [b EXCEPT ![i] = IF v THEN 1 ELSE 0] ELSE b
BsBadWrite(b, i) == i \notin DOMAIN b
BsRead(b, i) == IF i \in DOMAIN b THEN b[i] = 1 ELSE FALSE
BsBadRead(b, i) == ~(i \in DOMAIN b /\ b[i] # Uninit)

\* ----------------------------------------------------------- balance ----
\* Each operator below is a block of the function it is named after and
\* takes the abstractor m (and the locals) as the block finds them.

\* Lines 569-588.
balance_greater_double_bf(m, old_h, deep_h, bal_h) ==
  IF m.bf[bal_h] > 0
  THEN set_bf(set_bf(set_bf(Rd(m, "bf"), old_h, -1), deep_h, 0), bal_h, 0)
  ELSE IF m.bf[bal_h] < 0
  THEN set_bf(set_bf(set_bf(Rd(m, "bf"), deep_h, 1), old_h, 0), bal_h, 0)
  ELSE set_bf(set_bf(Rd(m, "bf"), old_h, 0), deep_h, 0)

\* Lines 562-588: the double rotation; bal_h is the new subtree root.
balance_greater_double(m, old_h, deep_h, bal_h) ==
  IF m.err THEN [m |-> m, h |-> null]
  ELSE [m |-> balance_greater_double_bf(
                set_gt(set_lt(link_lt_from_gt(link_gt_from_lt(m, old_h, bal_h),
                                              deep_h, bal_h),
                              bal_h, old_h),
                       bal_h, deep_h),
                old_h, deep_h, bal_h),
        h |-> bal_h]

\* balance_greater_single_bf without the case of lines 594-598, the rotation
\* about a deeper subtree that is itself balanced.
balance_greater_single_bf_no_even(m, bal_h, deep_h) ==
  set_bf(set_bf(Rd(m, "bf"), deep_h, 0), bal_h, 0)

\* balance_greater_single_bf without the set_bf(bal_h, 0) of line 602: the
\* node rotated down keeps the balance factor it had.
balance_greater_single_bf_deep_only(m, bal_h, deep_h) ==
  IF m.bf[deep_h] = 0
  THEN set_bf(set_bf(Rd(m, "bf"), deep_h, -1), bal_h, 1)
  ELSE set_bf(Rd(m, "bf"), deep_h, 0)

\* Lines 594-603.
balance_greater_single_bf(m, bal_h, deep_h) ==
  IF m.bf[deep_h] = 0
  THEN set_bf(set_bf(Rd(m, "bf"), deep_h, -1), bal_h, 1)
  ELSE set_bf(set_bf(Rd(m, "bf"), deep_h, 0), bal_h, 0)

\* Lines 592-604: the single rotation.
balance_greater_single(m, bal_h, deep_h) ==
  [m |-> balance_greater_single_bf(
           set_lt(link_gt_from_lt(m, bal_h, deep_h), deep_h, bal_h),
           bal_h, deep_h),
   h |-> deep_h]

\* Lines 555-605.
balance_greater_deep(m, bal_h, deep_h) ==
  IF m.err THEN [m |-> m, h |-> null]
  ELSE IF m.bf[deep_h] < 0
  THEN balance_greater_double(Rd(Rd(m, "bf"), "access"), bal_h, deep_h,
                              m.lt[deep_h])
  ELSE balance_greater_single(Rd(m, "bf"), bal_h, deep_h)

\* Lines 626-645.
balance_less_double_bf(m, old_h, deep_h, bal_h) ==
  IF m.bf[bal_h] < 0
  THEN set_bf(set_bf(set_bf(Rd(m, "bf"), old_h, 1), deep_h, 0), bal_h, 0)
  ELSE IF m.bf[bal_h] > 0
  THEN set_bf(set_bf(set_bf(Rd(m, "bf"), deep_h, -1), old_h, 0), bal_h, 0)
  ELSE set_bf(set_bf(Rd(m, "bf"), old_h, 0), deep_h, 0)

\* Lines 619-645.
balance_less_double(m, old_h, deep_h, bal_h) ==
  IF m.err THEN [m |-> m, h |-> null]
  ELSE [m |-> balance_less_double_bf(
                set_lt(set_gt(link_gt_from_lt(link_lt_from_gt(m, old_h, bal_h),
                                              deep_h, bal_h),
                              bal_h, old_h),
                       bal_h, deep_h),
                old_h, deep_h, bal_h),
        h |-> bal_h]

\* balance_less_single_bf without the case of lines 651-655, the rotation
\* about a deeper subtree that is itself balanced.
balance_less_single_bf_no_even(m, bal_h, deep_h) ==
  set_bf(set_bf(Rd(m, "bf"), deep_h, 0), bal_h, 0)

\* Lines 651-660.
balance_less_single_bf(m, bal_h, deep_h) ==
  IF m.bf[deep_h] = 0
  THEN set_bf(set_bf(Rd(m, "bf"), deep_h, 1), bal_h, -1)
  ELSE set_bf(set_bf(Rd(m, "bf"), deep_h, 0), bal_h, 0)

\* Lines 649-661.
balance_less_single(m, bal_h, deep_h) ==
  [m |-> balance_less_single_bf(
           set_gt(link_lt_from_gt(m, bal_h, deep_h), deep_h, bal_h),
           bal_h, deep_h),
   h |-> deep_h]

\* Lines 612-662.
balance_less_deep(m, bal_h, deep_h) ==
  IF m.err THEN [m |-> m, h |-> null]
  ELSE IF m.bf[deep_h] > 0
  THEN balance_less_double(Rd(Rd(m, "bf"), "access"), bal_h, deep_h,
                           m.gt[deep_h])
  ELSE balance_less_single(Rd(m, "bf"), bal_h, deep_h)

\* Lines 550-554 and 607-611: the side of the deeper subtree.
balance_side(m, deeper, bal_h) ==
  IF deeper > 0
  THEN balance_greater_deep(Rd(m, "access"), bal_h, m.gt[bal_h])
  ELSE balance_less_deep(Rd(m, "access"), bal_h, m.lt[bal_h])

\* A call of balance(bal_h) is added to the list of them.
balance_called(m, bal_h) ==
  [m EXCEPT !.rot = Append(@, [h |-> bal_h, lt |-> m.lt, gt |-> m.gt,
                               bf |-> m.bf])]

\* balance(bal_h): [m, h], h the root of the subtree after balancing (null
\* after a failed read).
balance(m, bal_h) ==
  balance_side(Rd(balance_called(m, bal_h), "bf"), m.bf[bal_h], bal_h)

\* ------------------------------------------------------------ insert ----
\* The locals of insert are a record s = [done, m, hh, parent, depth,
\* branch, unbal, parent_unbal, unbal_depth, cmp]; a record with done = TRUE
\* is a return, [done, m, ret].

RECURSIVE insert_descend(_, _)

\* Lines 704-709: remember the last unbalanced node.
insert_note(s) ==
  [s EXCEPT !.m = Rd(s.m, "bf"),
            !.unbal = IF s.m.bf[s.hh] # 0 THEN s.hh ELSE s.unbal,
            !.parent_unbal = IF s.m.bf[s.hh] # 0 THEN s.parent
                             ELSE s.parent_unbal,
            !.unbal_depth = IF s.m.bf[s.hh] # 0 THEN s.depth
                            ELSE s.unbal_depth]

\* Lines 714-715.
insert_down(s, cmp) ==
  [s EXCEPT !.m = Rd(s.m, "access"),
            !.parent = s.hh,
            !.hh = IF cmp < 0 THEN s.m.lt[s.hh] ELSE s.m.gt[s.hh],
            !.cmp = cmp]

\* Lines 716-718.
insert_mark(s) ==
  IF s.m.err THEN Fail(s.m)
  ELSE [s EXCEPT !.m = Ub(s.m, BsBadWrite(s.branch, s.depth)),
                 !.branch = BsWrite(s.branch, s.depth, s.cmp > 0),
                 !.depth = s.depth + 1]

\* Line 720.
insert_again(s, h) ==
  IF s.done THEN s
  ELSE IF s.hh = null \/ s.m.ub THEN s
  ELSE insert_descend(s, h)

\* insert_descend returning the new node, not the node that is there, when
\* the keys are equal.
insert_descend_returns_new(s, h) ==
  IF compare_node_node(h, s.hh) = 0
  THEN Return(Rd(s.m, "bf"), h)
  ELSE insert_again(
         insert_mark(insert_down(insert_note(s), compare_node_node(h, s.hh))),
         h)

\* The do-while of lines 702-720: the descent to the insertion point.
insert_descend(s, h) ==
  IF compare_node_node(h, s.hh) = 0
  THEN Return(Rd(s.m, "bf"), s.hh)
  ELSE insert_again(
         insert_mark(insert_down(insert_note(s), compare_node_node(h, s.hh))),
         h)

\* insert_leaf with the test of line 722 the other way round.
insert_leaf_swapped(s, h) ==
  IF s.done THEN s
  ELSE [s EXCEPT !.m = IF s.cmp > 0 THEN set_lt(s.m, s.parent, h)
                       ELSE set_gt(s.m, s.parent, h)]

\* Lines 722-726: add the node as a leaf.
insert_leaf(s, h) ==
  IF s.done THEN s
  ELSE [s EXCEPT !.m = IF s.cmp < 0 THEN set_lt(s.m, s.parent, h)
                       ELSE set_gt(s.m, s.parent, h)]

\* Lines 741-748.
insert_unbal_set(s, unbal_bf) ==
  IF s.m.err THEN Fail(s.m)
  ELSE IF unbal_bf # -2 /\ unbal_bf # 2
  THEN [s EXCEPT !.m = set_bf(s.m, s.unbal, unbal_bf), !.unbal = null]
  ELSE s

\* Lines 735-740.
insert_unbal_bf(s) ==
  insert_unbal_set(
    [s EXCEPT !.m = Rd(Rd(s.m, "bf"), "access"),
              !.hh = IF s.cmp < 0 THEN s.m.lt[s.unbal] ELSE s.m.gt[s.unbal]],
    IF s.cmp < 0 THEN s.m.bf[s.unbal] - 1 ELSE s.m.bf[s.unbal] + 1)

\* Lines 728-749: the new balance factor of the last unbalanced node.
insert_unbal(s) ==
  IF s.done THEN s
  ELSE IF s.unbal = null
  THEN [s EXCEPT !.depth = s.unbal_depth, !.hh = s.m.root]
  ELSE insert_unbal_bf(
         [s EXCEPT !.depth = s.unbal_depth + 1,
                   !.m = Ub(s.m, BsBadRead(s.branch, s.unbal_depth)),
                   !.cmp = IF BsRead(s.branch, s.unbal_depth) THEN 1 ELSE -1])

RECURSIVE insert_walk_loop(_, _)

\* insert_walk_step with the balance factor of line 759/763 negated.
insert_walk_step_negated(s, cmp) ==
  [s EXCEPT !.depth = s.depth + 1,
            !.m = Rd(set_bf(s.m, s.hh, -cmp), "access"),
            !.hh = IF cmp < 0 THEN s.m.lt[s.hh] ELSE s.m.gt[s.hh]]

\* Lines 754-764.
insert_walk_step(s, cmp) ==
  [s EXCEPT !.depth = s.depth + 1,
            !.m = Rd(set_bf(s.m, s.hh, cmp), "access"),
            !.hh = IF cmp < 0 THEN s.m.lt[s.hh] ELSE s.m.gt[s.hh]]

\* Lines 765-766.
insert_walk_next(s, h) ==
  IF s.m.err THEN Fail(s.m) ELSE insert_walk_loop(s, h)

\* The while of lines 752-767: the nodes between the last unbalanced node
\* and the new leaf get balance factor -1 or +1.
insert_walk_loop(s, h) ==
  IF s.hh = h THEN s
  ELSE IF BsBadRead(s.branch, s.depth) THEN Fail(Ub(s.m, TRUE))
  ELSE insert_walk_next(
         insert_walk_step(s, IF BsRead(s.branch, s.depth) THEN 1 ELSE -1), h)

\* Line 751.
insert_walk(s, h) ==
  IF s.done THEN s
  ELSE IF s.hh = null THEN s
  ELSE insert_walk_loop(s, h)

\* Lines 778-783.
insert_link(m, s, sub) ==
  IF BsRead(s.branch, s.unbal_depth - 1)
  THEN set_gt(m, s.parent_unbal, sub)
  ELSE set_lt(m, s.parent_unbal, sub)

\* Lines 772-785: b is what balance returned.
insert_splice(s, b, h) ==
  IF b.m.err THEN [m |-> b.m, ret |-> null]
  ELSE IF s.parent_unbal = null
  THEN [m |-> set_root(b.m, b.h), ret |-> h]
  ELSE [m |-> insert_link(Ub(b.m, BsBadRead(s.branch, s.unbal_depth - 1)),
                          s, b.h),
        ret |-> h]

\* insert_finish without the call of balance (lines 769-785).
insert_finish_no_balance(s, h) ==
  IF s.done THEN [m |-> s.m, ret |-> s.ret] ELSE [m |-> s.m, ret |-> h]

\* Lines 769-789.
insert_finish(s, h) ==
  IF s.done THEN [m |-> s.m, ret |-> s.ret]
  ELSE IF s.unbal = null THEN [m |-> s.m, ret |-> h]
  ELSE insert_splice(s, balance(s.m, s.unbal), h)

\* Lines 678-789.
insert_start(m, h) ==
  IF m.root = null
  THEN [m |-> set_root(m, h), ret |-> h]
  ELSE insert_finish(
         insert_walk(
           insert_unbal(
             insert_leaf(
               insert_descend(
                 [done |-> FALSE, m |-> m, hh |-> m.root, parent |-> null,
                  depth |-> 0, branch |-> NewBset, unbal |-> null,
                  parent_unbal |-> null, unbal_depth |-> 0, cmp |-> 0],
                 h),
               h)),
           h),
         h)

\* insert(h): [m, ret].
insert(m, h) ==
  insert_start(set_bf(set_gt(set_lt(m, h, null), h, null), h, 0), h)

\* ------------------------------------------------------------ search ----

RECURSIVE search_loop(_, _, _, _, _, _)

\* search_cmp without the change of sign of line 816.
search_cmp_same_sign(cmp, target_cmp) == IF cmp = 0 THEN target_cmp ELSE cmp

\* Lines 813-821: the direction to go on.
search_cmp(cmp, target_cmp) == IF cmp = 0 THEN -target_cmp ELSE cmp

\* Lines 822-825: the best match so far.
search_match(h, match_h, cmp, target_cmp) ==
  IF cmp # 0 /\ target_cmp # 0 /\ SameSign(cmp, target_cmp)
  THEN h ELSE match_h

\* Line 826.
search_child(m, h, cmp) == IF cmp < 0 THEN m.lt[h] ELSE m.gt[h]

\* Lines 827-831.
search_next(m, h, match_h, k, st, target_cmp) ==
  IF m.err THEN [m |-> m, ret |-> null]
  ELSE search_loop(m, h, match_h, k, st, target_cmp)

\* The while of lines 810-832.
search_loop(m, h, match_h, k, st, target_cmp) ==
  IF h = null THEN [m |-> m, ret |-> match_h]
  ELSE IF compare_key_node(k, h) = 0 /\ HasBit(st, EQUAL)
  THEN [m |-> m, ret |-> h]
  ELSE search_next(
         Rd(m, "access"),
         search_child(m, h, search_cmp(compare_key_node(k, h), target_cmp)),
         search_match(h, match_h, compare_key_node(k, h), target_cmp),
         k, st, target_cmp)

\* Lines 803-808.
search_target(st) ==
  IF HasBit(st, LESS) THEN 1
  ELSE IF HasBit(st, GREATER) THEN -1
  ELSE 0

\* search(k, st): [m, ret].
search(m, k, st) == search_loop(m, m.root, null, k, st, search_target(st))

RECURSIVE search_least_loop(_, _, _)

\* Lines 847-851.
search_least_next(m, h, parent) ==
  IF m.err THEN [m |-> m, ret |-> null]
  ELSE search_least_loop(m, h, parent)

\* The while of lines 843-852.
search_least_loop(m, h, parent) ==
  IF h = null THEN [m |-> m, ret |-> parent]
  ELSE search_least_next(Rd(m, "access"), m.lt[h], h)

\* search_least(), lines 837-855: [m, ret].
search_least(m) == search_least_loop(m, m.root, null)

RECURSIVE search_greatest_loop(_, _, _)

\* Lines 867-871.
search_greatest_next(m, h, parent) ==
  IF m.err THEN [m |-> m, ret |-> null]
  ELSE search_greatest_loop(m, h, parent)

\* The while of lines 863-872.
search_greatest_loop(m, h, parent) ==
  IF h = null THEN [m |-> m, ret |-> parent]
  ELSE search_greatest_next(Rd(m, "access"), m.gt[h], h)

\* search_greatest(), lines 857-875: [m, ret].
search_greatest(m) == search_greatest_loop(m, m.root, null)

\* ------------------------------------------------------------ remove ----
\* The locals of remove are a record s = [done, m, h, parent, child, depth,
\* branch, cmp, csp, rm, parent_rm, rm_depth, path, reduced_depth]; csp is
\* cmp_shortened_sub_with_path, 0 while nothing has been assigned to it.

RECURSIVE remove_find(_, _)

\* Lines 903-904.
remove_find_step(s, cmp) ==
  [s EXCEPT !.m = Rd(s.m, "access"),
            !.parent = s.h,
            !.h = IF cmp < 0 THEN s.m.lt[s.h] ELSE s.m.gt[s.h],
            !.cmp = cmp]

\* Lines 905-908.
remove_find_next(s, k) ==
  IF s.m.err THEN Fail(s.m)
  ELSE IF BsBadWrite(s.branch, s.depth) THEN Fail(Ub(s.m, TRUE))
  ELSE remove_find([s EXCEPT !.branch = BsWrite(s.branch, s.depth, s.cmp > 0),
                             !.depth = s.depth + 1,
                             !.csp = s.cmp], k)

\* The for of lines 894-909 and lines 910-912: find the node to remove.
remove_find(s, k) ==
  IF s.h = null THEN Fail(s.m)
  ELSE IF compare_key_node(k, s.h) = 0
  THEN [s EXCEPT !.rm = s.h, !.parent_rm = s.parent, !.rm_depth = s.depth]
  ELSE remove_find_next(remove_find_step(s, compare_key_node(k, s.h)), k)

\* Lines 933-935.
remove_side_check(s) ==
  IF s.m.err \/ s.m.ub THEN Fail(s.m)
  ELSE [s EXCEPT !.depth = s.depth + 1]

\* Lines 921-932.
remove_side_set(s, child, cmp) ==
  remove_side_check(
    [s EXCEPT !.m = Ub(Rd(Rd(s.m, "bf"), "access"),
                       BsBadWrite(s.branch, s.depth)),
              !.child = child,
              !.branch = BsWrite(s.branch, s.depth, cmp > 0),
              !.cmp = cmp])

\* Lines 921-935: start toward the deeper subtree of the node to remove.
remove_side(s) ==
  IF s.done THEN s
  ELSE IF s.m.bf[s.h] < 0
  THEN remove_side_set(s, s.m.lt[s.h], -1)
  ELSE remove_side_set(s, s.m.gt[s.h], 1)

RECURSIVE remove_leaf(_)

\* Lines 954-958.
remove_leaf_next(s) ==
  IF s.m.err \/ s.m.ub THEN Fail(s.m)
  ELSE IF s.child # null THEN remove_leaf([s EXCEPT !.depth = s.depth + 1])
  ELSE [s EXCEPT !.depth = s.depth + 1]

\* The do-while of lines 940-958: go down to the node that will replace
\* the removed one.
remove_leaf(s) ==
  remove_leaf_next(
    [s EXCEPT !.parent = s.h,
              !.h = s.child,
              !.child = IF s.cmp < 0 THEN s.m.lt[s.child] ELSE s.m.gt[s.child],
              !.m = Ub(Rd(s.m, "access"), BsBadWrite(s.branch, s.depth)),
              !.branch = BsWrite(s.branch, s.depth, s.cmp > 0)])

\* remove_opposite taking the child from the side the descent came down,
\* where there is none, and not from the opposite side.
remove_opposite_same_side(s) ==
  IF s.done THEN s
  ELSE [s EXCEPT !.csp = IF s.parent = s.rm THEN -s.cmp ELSE s.cmp,
                 !.child = IF s.cmp > 0 THEN s.m.gt[s.h] ELSE s.m.lt[s.h],
                 !.m = Rd(s.m, "hint")]

\* Lines 960-968.
remove_opposite(s) ==
  IF s.done THEN s
  ELSE [s EXCEPT !.csp = IF s.parent = s.rm THEN -s.cmp ELSE s.cmp,
                 !.child = IF s.cmp > 0 THEN s.m.lt[s.h] ELSE s.m.gt[s.h],
                 !.m = Rd(s.m, "hint")]

\* Lines 937-969.
remove_down(s) ==
  IF s.done THEN s
  ELSE IF s.child = null THEN s
  ELSE remove_opposite(remove_leaf([s EXCEPT !.cmp = -s.cmp]))

\* Lines 971-983: take the replacement out of its place.
remove_unlink(s) ==
  IF s.done THEN s
  ELSE [s EXCEPT !.m = IF s.parent = null THEN set_root(s.m, s.child)
                       ELSE IF s.csp < 0
                       THEN set_lt(Ub(s.m, s.csp = 0), s.parent, s.child)
                       ELSE set_gt(Ub(s.m, s.csp = 0), s.parent, s.child),
                 !.path = IF s.parent = s.rm THEN s.h ELSE s.parent]

\* remove_poke_parent with the test of line 996 the other way round.
remove_poke_parent_swapped(m, s) ==
  IF s.parent_rm = null THEN set_root(m, s.h)
  ELSE IF ~BsRead(s.branch, s.rm_depth - 1)
  THEN set_gt(Ub(m, BsBadRead(s.branch, s.rm_depth - 1)), s.parent_rm, s.h)
  ELSE set_lt(Ub(m, BsBadRead(s.branch, s.rm_depth - 1)), s.parent_rm, s.h)

\* Lines 991-1000.
remove_poke_parent(m, s) ==
  IF s.parent_rm = null THEN set_root(m, s.h)
  ELSE IF BsRead(s.branch, s.rm_depth - 1)
  THEN set_gt(Ub(m, BsBadRead(s.branch, s.rm_depth - 1)), s.parent_rm, s.h)
  ELSE set_lt(Ub(m, BsBadRead(s.branch, s.rm_depth - 1)), s.parent_rm, s.h)

\* Lines 985-1001: poke the replacement into the place of the removed node.
remove_poke(s) ==
  IF s.done THEN s
  ELSE IF s.h = s.rm THEN s
  ELSE [s EXCEPT !.m = remove_poke_parent(
                         copy_bf(link_gt_from_gt(
                                   link_lt_from_lt(s.m, s.h, s.rm),
                                   s.h, s.rm),
                                 s.h, s.rm),
                         s)]

RECURSIVE remove_thread(_)

\* A link of h is overwritten with the parent of h: one more of them.
remove_threaded(m, h, up) ==
  [m EXCEPT !.thr = Append(@, [h |-> h, up |-> up])]

\* Lines 1012-1021.
remove_thread_step(s, up) ==
  [s EXCEPT !.depth = s.depth + 1,
            !.child = IF up THEN s.m.gt[s.h] ELSE s.m.lt[s.h],
            !.m = remove_threaded(
                    IF up THEN set_gt(Rd(s.m, "access"), s.h, s.parent)
                    ELSE set_lt(Rd(s.m, "access"), s.h, s.parent),
                    s.h, up)]

\* Lines 1022-1025.
remove_thread_next(s) ==
  IF s.m.err THEN Fail(s.m)
  ELSE remove_thread([s EXCEPT !.parent = s.h, !.h = s.child])

\* The while of lines 1010-1026: the links on the way from the root to the
\* path node are turned into a list that leads back to the root.
remove_thread(s) ==
  IF s.h = s.path THEN s
  ELSE IF BsBadRead(s.branch, s.depth) THEN Fail(Ub(s.m, TRUE))
  ELSE remove_thread_next(remove_thread_step(s, BsRead(s.branch, s.depth)))

RECURSIVE remove_climb(_)

\* Lines 1045-1047 and 1051: b is what balance returned.
remove_balanced(s, b) ==
  IF b.m.err THEN Fail(b.m)
  ELSE [s EXCEPT !.h = b.h,
                 !.m = Rd(b.m, "bf"),
                 !.reduced_depth = (b.m.bf[b.h] = 0)]

\* remove_adjust_bf with the set_bf of line 1050 ahead of the test of line
\* 1042: the new balance factor is stored before balance is called.
remove_adjust_bf_stored_first(s, b) ==
  IF b = -2 \/ b = 2
  THEN remove_balanced(s, balance(set_bf(Rd(s.m, "bf"), s.h, b), s.h))
  ELSE [s EXCEPT !.m = set_bf(Rd(s.m, "bf"), s.h, b),
                 !.reduced_depth = (b = 0)]

\* Lines 1042-1051.
remove_adjust_bf(s, b) ==
  IF b = -2 \/ b = 2
  THEN remove_balanced(s, balance(Rd(s.m, "bf"), s.h))
  ELSE [s EXCEPT !.m = set_bf(Rd(s.m, "bf"), s.h, b),
                 !.reduced_depth = (b = 0)]

\* Lines 1035-1052: the balance factor of h after a subtree got shorter.
remove_adjust(s) ==
  remove_adjust_bf(s, IF s.cmp < 0 THEN s.m.bf[s.h] + 1 ELSE s.m.bf[s.h] - 1)

\* remove_up_step without the writes of lines 1060 and 1065, which put the
\* link back.
remove_up_step_no_restore(s, up) ==
  [s EXCEPT !.depth = s.depth - 1,
            !.cmp = IF up THEN 1 ELSE -1,
            !.child = s.h,
            !.h = s.parent,
            !.parent = IF up THEN s.m.gt[s.parent] ELSE s.m.lt[s.parent],
            !.m = Rd(s.m, "access")]

\* Lines 1055-1067.
remove_up_step(s, up) ==
  [s EXCEPT !.depth = s.depth - 1,
            !.cmp = IF up THEN 1 ELSE -1,
            !.child = s.h,
            !.h = s.parent,
            !.parent = IF up THEN s.m.gt[s.parent] ELSE s.m.lt[s.parent],
            !.m = IF up THEN set_gt(Rd(s.m, "access"), s.parent, s.h)
                  ELSE set_lt(Rd(s.m, "access"), s.parent, s.h)]

\* Lines 1068-1069.
remove_up_next(s) ==
  IF s.m.err THEN Fail(s.m) ELSE remove_climb(s)

\* Lines 1053-1069: one step up the list, restoring the link.
remove_up(s) ==
  IF s.done THEN s
  ELSE IF s.parent = null THEN s
  ELSE IF BsBadRead(s.branch, s.depth - 1) THEN Fail(Ub(s.m, TRUE))
  ELSE remove_up_next(remove_up_step(s, BsRead(s.branch, s.depth - 1)))

\* The for of lines 1033-1070: climb back to the root, restoring the links
\* and rebalancing.
remove_climb(s) ==
  remove_up(IF s.reduced_depth THEN remove_adjust(s) ELSE s)

\* Lines 1030-1032.
remove_climb_start(s) ==
  IF s.done THEN s
  ELSE remove_climb([s EXCEPT !.reduced_depth = TRUE,
                              !.cmp = s.csp,
                              !.m = Ub(s.m, s.csp = 0)])

\* Line 1071.
remove_root(s) ==
  IF s.done THEN s ELSE [s EXCEPT !.m = set_root(s.m, s.h)]

\* Lines 1003-1072: rebalance from the path node up to the root.
remove_retrace(s) ==
  IF s.done THEN s
  ELSE IF s.path = null THEN s
  ELSE remove_root(
         remove_climb_start(
           remove_thread([s EXCEPT !.h = s.m.root, !.parent = null,
                                   !.depth = 0])))

\* Line 1074.
remove_finish(s) ==
  IF s.done THEN [m |-> s.m, ret |-> s.ret] ELSE [m |-> s.m, ret |-> s.rm]

\* remove(k): [m, ret].
remove(m, k) ==
  remove_finish(
    remove_retrace(
      remove_poke(
        remove_unlink(
          remove_down(
            remove_side(
              remove_find(
                [done |-> FALSE, m |-> m, h |-> m.root, parent |-> null,
                 child |-> null, depth |-> 0, branch |-> NewBset, cmp |-> 0,
                 csp |-> 0, rm |-> null, parent_rm |-> null, rm_depth |-> 0,
                 path |-> null, reduced_depth |-> FALSE],
                k)))))))

\* ------------------------------------------------------------- subst ----

RECURSIVE subst_find(_, _, _, _, _)

\* subst_parent with the test of line 1113 the other way round.
subst_parent_swapped(m, new_node, parent, last_cmp) ==
  IF parent = null THEN set_root(m, new_node)
  ELSE IF last_cmp > 0 THEN set_lt(m, parent, new_node)
  ELSE set_gt(m, parent, new_node)

\* Lines 1107-1117.
subst_parent(m, new_node, parent, last_cmp) ==
  IF parent = null THEN set_root(m, new_node)
  ELSE IF last_cmp < 0 THEN set_lt(m, parent, new_node)
  ELSE set_gt(m, parent, new_node)

\* Lines 1098-1099.
subst_next(m, new_node, h, parent, last_cmp) ==
  IF m.err THEN [m |-> m, ret |-> null]
  ELSE subst_find(m, new_node, h, parent, last_cmp)

\* The for of lines 1086-1100, and lines 1102-1119 once the node is found.
subst_find(m, new_node, h, parent, last_cmp) ==
  IF h = null THEN [m |-> m, ret |-> null]
  ELSE IF compare_node_node(new_node, h) = 0
  THEN [m |-> subst_parent(
                copy_bf(link_gt_from_gt(link_lt_from_lt(m, new_node, h),
                                        new_node, h),
                        new_node, h),
                new_node, parent, last_cmp),
        ret |-> h]
  ELSE subst_next(Rd(m, "access"), new_node,
                  IF compare_node_node(new_node, h) < 0 THEN m.lt[h]
                  ELSE m.gt[h],
                  h, compare_node_node(new_node, h))

\* subst clearing the links of the new node before it looks for the node to
\* replace, the way insert does at lines 674-676.
subst_cleared_first(m, new_node) ==
  subst_find(set_bf(set_gt(set_lt(m, new_node, null), new_node, null),
                    new_node, 0),
             new_node, m.root, null, 0)

\* subst(new_node): [m, ret].
subst(m, new_node) == subst_find(m, new_node, m.root, null, 0)

\* ------------------------------------------------------------- build ----
\* The locals of build are a record s = [done, m, ret, branch, rem, depth,
\* num_sub, less_parent, h, child, p]; p is the place of the forward
\* iterator in the sequence seq.  A read of the sequence, *p, is an
\* abstractor read of the kind "seq".  build gives [m, ret], and with them
\* the locals as they are at the return of line 503.

RECURSIVE build_loop(_, _, _)
RECURSIVE build_split(_)
RECURSIVE build_unwind(_)

\* Line 423 and its like: if (read_error()) return(false);
Stopped(s) == s.m.err \/ s.m.ub

SeqAt(seq, p) == IF p \in DOMAIN seq THEN seq[p] ELSE null

\* Line 469: num_sub & (num_sub - 1) is zero.
IsPowerOfTwo(n) == \E e \in 0..(max_depth + 2) : 2 ^ e = n

BitOf(b, i) == IF BsRead(b, i) THEN 1 ELSE 0

\* build_split with num_sub halved before the root is taken off (line 409
\* after line 412): the extra node goes to the less side.
build_split_less_heavy(s) ==
  IF s.num_sub <= 2 \/ s.m.ub THEN s
  ELSE build_split(
         [s EXCEPT !.m = Ub(s.m, BsBadWrite(s.rem, s.depth)),
                   !.rem = BsWrite(@, s.depth, (s.num_sub - 1) % 2 = 1),
                   !.branch = BsWrite(@, s.depth, FALSE),
                   !.depth = s.depth + 1,
                   !.num_sub = s.num_sub \div 2])

\* The while of lines 406-413: down to a subtree of one or two nodes.
build_split(s) ==
  IF s.num_sub <= 2 \/ s.m.ub THEN s
  ELSE build_split(
         [s EXCEPT !.m = Ub(s.m, BsBadWrite(s.rem, s.depth)),
                   !.rem = BsWrite(@, s.depth, (s.num_sub - 1) % 2 = 1),
                   !.branch = BsWrite(@, s.depth, FALSE),
                   !.depth = s.depth + 1,
                   !.num_sub = (s.num_sub - 1) \div 2])

\* Lines 422 and 425 (441 and 444): h = *p; ... p++;
build_take_h(s, seq) ==
  [s EXCEPT !.m = Ub(Rd(s.m, "seq"), s.p \notin DOMAIN seq),
            !.h = SeqAt(seq, s.p),
            !.p = s.p + 1]

\* build_take_child without the p++ of line 429: the next node taken is
\* the same node again.
build_take_child_no_advance(s, seq) ==
  [s EXCEPT !.m = Ub(Rd(s.m, "seq"), s.p \notin DOMAIN seq),
            !.child = SeqAt(seq, s.p)]

\* Lines 426 and 429: child = *p; ... p++;
build_take_child(s, seq) ==
  [s EXCEPT !.m = Ub(Rd(s.m, "seq"), s.p \notin DOMAIN seq),
            !.child = SeqAt(seq, s.p),
            !.p = s.p + 1]

\* Lines 427-435.
build_pair_link(s) ==
  IF Stopped(s) THEN Return(s.m, FALSE)
  ELSE [s EXCEPT !.m = set_bf(
                         set_lt(
                           set_gt(
                             set_bf(
                               set_gt(set_lt(s.m, s.child, null),
                                      s.child, null),
                               s.child, 0),
                             s.h, s.child),
                           s.h, null),
                         s.h, 1)]

\* Lines 423-429.
build_pair_child(s, seq) ==
  IF Stopped(s) THEN Return(s.m, FALSE)
  ELSE build_pair_link(build_take_child(s, seq))

\* Lines 442-447.
build_single_link(s) ==
  IF Stopped(s) THEN Return(s.m, FALSE)
  ELSE [s EXCEPT !.m = set_bf(set_gt(set_lt(s.m, s.h, null), s.h, null),
                              s.h, 0)]

\* Lines 415-448: a subtree of two nodes or of one.
build_bottom(s, seq) ==
  IF s.m.ub THEN Return(s.m, FALSE)
  ELSE IF s.num_sub = 2 THEN build_pair_child(build_take_h(s, seq), seq)
  ELSE build_single_link(build_take_h(s, seq))

\* Lines 460-462.
build_attach_pop(s) ==
  [s EXCEPT !.child = s.h,
            !.h = s.less_parent,
            !.less_parent = s.m.gt[s.less_parent],
            !.m = Ub(Rd(s.m, "access"), s.less_parent = null)]

\* Lines 465-468.
build_attach_size(s) ==
  [s EXCEPT !.m = Ub(set_gt(s.m, s.h, s.child), BsBadRead(s.rem, s.depth)),
            !.num_sub = 2 * s.num_sub + 1 - BitOf(s.rem, s.depth)]

\* build_attach_bf with the two balance factors of lines 469-474 exchanged.
build_attach_bf_swapped(s) ==
  [s EXCEPT !.m = set_bf(s.m, s.h, IF IsPowerOfTwo(s.num_sub) THEN 0 ELSE 1)]

\* Lines 469-474.
build_attach_bf(s) ==
  [s EXCEPT !.m = set_bf(s.m, s.h, IF IsPowerOfTwo(s.num_sub) THEN 1 ELSE 0)]

\* Lines 463-474.
build_attach(s) ==
  IF Stopped(s) THEN Return(s.m, FALSE)
  ELSE build_unwind(build_attach_bf(build_attach_size(s)))

\* Lines 453-462.
build_unwind_at(s) ==
  IF s.m.ub THEN Return(s.m, FALSE)
  ELSE IF ~BsRead(s.branch, s.depth) THEN s
  ELSE build_attach(build_attach_pop(s))

\* The while of lines 450-475: attach the greater subtrees that are done.
build_unwind(s) ==
  IF s.done THEN s
  ELSE IF s.depth = 0 THEN s
  ELSE build_unwind_at(
         [s EXCEPT !.depth = s.depth - 1,
                   !.m = Ub(s.m, BsBadRead(s.branch, s.depth - 1))])

\* Lines 484-488.
build_take_next(s, seq) ==
  [s EXCEPT !.child = s.h,
            !.m = Ub(Rd(s.m, "seq"), s.p \notin DOMAIN seq),
            !.h = SeqAt(seq, s.p),
            !.p = s.p + 1]

\* build_push without the rem[depth] of line 497: the greater subtree is
\* given as many nodes as the less subtree.
build_push_no_rem(s) ==
  [s EXCEPT !.m = Ub(set_gt(set_lt(s.m, s.h, s.child), s.h, s.less_parent),
                     BsBadWrite(s.branch, s.depth)
                       \/ BsBadRead(s.rem, s.depth)),
            !.less_parent = s.h,
            !.branch = BsWrite(@, s.depth, TRUE),
            !.depth = s.depth + 1]

\* Lines 489-497.
build_push(s) ==
  [s EXCEPT !.m = Ub(set_gt(set_lt(s.m, s.h, s.child), s.h, s.less_parent),
                     BsBadWrite(s.branch, s.depth)
                       \/ BsBadRead(s.rem, s.depth)),
            !.less_parent = s.h,
            !.branch = BsWrite(@, s.depth, TRUE),
            !.num_sub = s.num_sub + BitOf(s.rem, s.depth),
            !.depth = s.depth + 1]

\* Lines 486-497.
build_greater(s, seq, num_nodes) ==
  IF Stopped(s) THEN Return(s.m, FALSE)
  ELSE build_loop(build_push(s), seq, num_nodes)

\* Lines 477-488 and 501-503.
build_turn(s, seq, num_nodes) ==
  IF s.done THEN s
  ELSE IF s.num_sub = num_nodes
  THEN [s EXCEPT !.done = TRUE, !.m = set_root(s.m, s.h), !.ret = TRUE]
  ELSE build_greater(build_take_next(s, seq), seq, num_nodes)

\* The for of lines 404-498.
build_loop(s, seq, num_nodes) ==
  build_turn(build_unwind(build_bottom(build_split(s), seq)),
             seq, num_nodes)

\* build(p, num_nodes), lines 357-504; seq is what p runs over: [m, ret].
build(m, seq, num_nodes) ==
  IF num_nodes = 0 THEN Return(set_root(m, null), TRUE)
  ELSE build_loop(
         [done |-> FALSE, m |-> m, ret |-> FALSE, branch |-> NewBset,
          rem |-> NewBset, depth |-> 0, num_sub |-> num_nodes,
          less_parent |-> null, h |-> null, child |-> null, p |-> 1],
         seq, num_nodes)

\* -------------------------------------------------------------- iter ----
\* An iterator is a record it = [depth, branch, path_h].  depth is an
\* unsigned; its value unsigned(~0) is written InvalidDepth, and depth++
\* on it wraps round to 0.  An iterator operation gives [m, it].

InvalidDepth == -1

DepthInc(d) == IF d = InvalidDepth THEN 0 ELSE d + 1

\* NewPath with an array of one entry less: handle path_h[max_depth - 2].
NewPath_one_less == [i \in 0..(max_depth - 3) |-> NoHandle]

\* handle path_h[max_depth - 1], line 343; nothing initializes it.
NewPath == [i \in 0..(max_depth - 2) |-> NoHandle]
PathWrite(p, i, h) == IF i \in DOMAIN p THEN [p EXCEPT ![i] = h] ELSE p
PathBadWrite(p, i) == i \notin DOMAIN p
PathRead(p, i) == IF i \in DOMAIN p /\ p[i] # NoHandle THEN p[i] ELSE null
PathBadRead(p, i) == ~(i \in DOMAIN p /\ p[i] # NoHandle)

\* The constructor, line 127.
NewIter == [depth |-> InvalidDepth, branch |-> NewBset, path_h |-> NewPath]

It(m, it) == [m |-> m, it |-> it]
Invalidate(m, it) == [m |-> m, it |-> [it EXCEPT !.depth = InvalidDepth]]

\* Push with the bit written after depth++, at the new depth.
Push_bit_late(it, b, h) ==
  [it EXCEPT !.branch = BsWrite(@, it.depth + 1, b),
             !.path_h = PathWrite(@, it.depth, h),
             !.depth = it.depth + 1]

\* Lines 264-265 and their like: branch[depth] = b; path_h[depth++] = h;
Push(it, b, h) ==
  [it EXCEPT !.branch = BsWrite(@, it.depth, b),
             !.path_h = PathWrite(@, it.depth, h),
             !.depth = it.depth + 1]
BadPush(it) ==
  BsBadWrite(it.branch, it.depth) \/ PathBadWrite(it.path_h, it.depth)

\* operator *, lines 236-242.
operator_deref(m, it) ==
  IF it.depth = InvalidDepth THEN null
  ELSE IF it.depth = 0 THEN m.root
  ELSE PathRead(it.path_h, it.depth - 1)

operator_deref_bad(it) ==
  it.depth \notin {InvalidDepth, 0} /\ PathBadRead(it.path_h, it.depth - 1)

RECURSIVE start_iter_loop(_, _, _, _, _, _, _)

\* Lines 176-184.
start_iter_next(m, it, h, d, cmp, k, st, target_cmp) ==
  IF m.err THEN Invalidate(m, it)
  ELSE IF h = null \/ m.ub THEN It(m, it)
  ELSE start_iter_loop(
         Ub(m, BsBadWrite(it.branch, d) \/ PathBadWrite(it.path_h, d)),
         [it EXCEPT !.branch = BsWrite(@, d, cmp > 0),
                    !.path_h = PathWrite(@, d, h)],
         h, d + 1, k, st, target_cmp)

\* Lines 160-170: the direction to go on.
start_iter_cmp(cmp, target_cmp) == IF cmp = 0 THEN -target_cmp ELSE cmp

\* start_iter_depth without the test of the signs (lines 168-169).
start_iter_depth_any_sign(it, d, cmp, target_cmp) ==
  IF cmp # 0 /\ target_cmp # 0 THEN [it EXCEPT !.depth = d] ELSE it

\* Lines 171-174: the depth of the best match so far.
start_iter_depth(it, d, cmp, target_cmp) ==
  IF cmp # 0 /\ target_cmp # 0 /\ SameSign(cmp, target_cmp)
  THEN [it EXCEPT !.depth = d] ELSE it

\* The for of lines 158-185.
start_iter_loop(m, it, h, d, k, st, target_cmp) ==
  IF compare_key_node(k, h) = 0 /\ HasBit(st, EQUAL)
  THEN It(m, [it EXCEPT !.depth = d])
  ELSE start_iter_next(
         Rd(m, "access"),
         start_iter_depth(it, d, compare_key_node(k, h), target_cmp),
         IF start_iter_cmp(compare_key_node(k, h), target_cmp) < 0
         THEN m.lt[h] ELSE m.gt[h],
         d,
         start_iter_cmp(compare_key_node(k, h), target_cmp),
         k, st, target_cmp)

\* Lines 148-156.
start_iter_target(st) ==
  IF HasBit(st, LESS) THEN 1
  ELSE IF HasBit(st, GREATER) THEN -1
  ELSE 0

\* start_iter(tree, k, st), lines 129-186.
start_iter(m, it, k, st) ==
  IF m.root = null THEN Invalidate(m, it)
  ELSE start_iter_loop(m, [it EXCEPT !.depth = InvalidDepth], m.root, 0,
                       k, st, start_iter_target(st))

RECURSIVE start_iter_least_loop(_, _, _)

\* Lines 204-208.
start_iter_least_next(m, it, h) ==
  IF m.err THEN Invalidate(m, it)
  ELSE start_iter_least_loop(m, it, h)

\* The while of lines 198-209.
start_iter_least_loop(m, it, h) ==
  IF h = null \/ m.ub THEN It(m, it)
  ELSE start_iter_least_next(
         Ub(Rd(m, "access"),
            it.depth # InvalidDepth /\ PathBadWrite(it.path_h, it.depth)),
         [it EXCEPT !.path_h = IF it.depth = InvalidDepth THEN @
                               ELSE PathWrite(@, it.depth, h),
                    !.depth = DepthInc(it.depth)],
         m.lt[h])

\* start_iter_least(tree), lines 188-210; branch.reset() clears every bit.
start_iter_least(m, it) ==
  start_iter_least_loop(
    m,
    [it EXCEPT !.depth = InvalidDepth, !.branch = [i \in DOMAIN @ |-> 0]],
    m.root)

RECURSIVE start_iter_greatest_loop(_, _, _)

\* Lines 228-232.
start_iter_greatest_next(m, it, h) ==
  IF m.err THEN Invalidate(m, it)
  ELSE start_iter_greatest_loop(m, it, h)

\* The while of lines 222-233.
start_iter_greatest_loop(m, it, h) ==
  IF h = null \/ m.ub THEN It(m, it)
  ELSE start_iter_greatest_next(
         Ub(Rd(m, "access"),
            it.depth # InvalidDepth /\ PathBadWrite(it.path_h, it.depth)),
         [it EXCEPT !.path_h = IF it.depth = InvalidDepth THEN @
                               ELSE PathWrite(@, it.depth, h),
                    !.depth = DepthInc(it.depth)],
         m.gt[h])

\* start_iter_greatest(tree), lines 212-234; branch.set() sets every bit.
start_iter_greatest(m, it) ==
  start_iter_greatest_loop(
    m,
    [it EXCEPT !.depth = InvalidDepth, !.branch = [i \in DOMAIN @ |-> 1]],
    m.root)

RECURSIVE operator_inc_up(_, _)
RECURSIVE operator_inc_down(_, _, _)

\* operator_inc_up_test with the condition of operator --, line 300.
operator_inc_up_test_as_dec(m, it) ==
  IF ~BsRead(it.branch, it.depth) /\ ~m.ub THEN operator_inc_up(m, it)
  ELSE It(m, it)

\* Line 261: while (branch[depth]).
operator_inc_up_test(m, it) ==
  IF BsRead(it.branch, it.depth) /\ ~m.ub THEN operator_inc_up(m, it)
  ELSE It(m, it)

\* The do-while of lines 252-261: back up to the last less branch.
operator_inc_up(m, it) ==
  IF it.depth = 0 THEN Invalidate(m, it)
  ELSE operator_inc_up_test(Ub(m, BsBadRead(it.branch, it.depth - 1)),
                            [it EXCEPT !.depth = it.depth - 1])

\* Lines 269-277.
operator_inc_down_next(m, it, h) ==
  IF m.err THEN Invalidate(m, it)
  ELSE IF h = null \/ m.ub THEN It(m, it)
  ELSE operator_inc_down(Ub(m, BadPush(it)), Push(it, FALSE, h), h)

\* The for of lines 266-278: down the less links.
operator_inc_down(m, it, h) ==
  operator_inc_down_next(Rd(m, "access"), it, m.lt[h])

\* Lines 249-279.
operator_inc_step(m, it, h) ==
  IF m.err THEN Invalidate(m, it)
  ELSE IF h = null THEN operator_inc_up(m, it)
  ELSE operator_inc_down(Ub(m, BadPush(it)), Push(it, TRUE, h), h)

\* operator ++, lines 244-281.
operator_inc(m, it) ==
  IF it.depth = InvalidDepth THEN It(m, it)
  ELSE operator_inc_step(Ub(Rd(m, "access"), operator_deref_bad(it)), it,
                         m.gt[operator_deref(m, it)])

RECURSIVE operator_dec_up(_, _)
RECURSIVE operator_dec_down(_, _, _)

\* operator_dec_up_test with the test of operator ++ (line 261).
operator_dec_up_test_as_inc(m, it) ==
  IF BsRead(it.branch, it.depth) /\ ~m.ub THEN operator_dec_up(m, it)
  ELSE It(m, it)

\* Line 300: while (!branch[depth]).
operator_dec_up_test(m, it) ==
  IF ~BsRead(it.branch, it.depth) /\ ~m.ub THEN operator_dec_up(m, it)
  ELSE It(m, it)

\* The do-while of lines 291-300: back up to the last greater branch.
operator_dec_up(m, it) ==
  IF it.depth = 0 THEN Invalidate(m, it)
  ELSE operator_dec_up_test(Ub(m, BsBadRead(it.branch, it.depth - 1)),
                            [it EXCEPT !.depth = it.depth - 1])

\* Lines 308-316.
operator_dec_down_next(m, it, h) ==
  IF m.err THEN Invalidate(m, it)
  ELSE IF h = null \/ m.ub THEN It(m, it)
  ELSE operator_dec_down(Ub(m, BadPush(it)), Push(it, TRUE, h), h)

\* The for of lines 305-317: down the greater links.
operator_dec_down(m, it, h) ==
  operator_dec_down_next(Rd(m, "access"), it, m.gt[h])

\* Lines 288-318.
operator_dec_step(m, it, h) ==
  IF m.err THEN Invalidate(m, it)
  ELSE IF h = null THEN operator_dec_up(m, it)
  ELSE operator_dec_down(Ub(m, BadPush(it)), Push(it, FALSE, h), h)

\* operator --, lines 283-320.
operator_dec(m, it) ==
  IF it.depth = InvalidDepth THEN It(m, it)
  ELSE operator_dec_step(Ub(Rd(m, "access"), operator_deref_bad(it)), it,
                         m.lt[operator_deref(m, it)])

\* ------------------------------------------------------------- state ----

NoTrip == [phase |-> 0, seq |-> <<>>, dup |-> FALSE]
NoWalk == [mode |-> "none", seen |-> <<>>]

VARIABLES
  root,   \* abs.root
  lt,     \* the less link of every node
  gt,     \* the greater link of every node
  bf,     \* the balance factor of every node
  err,    \* the abstractor's latched read_error flag
  last,   \* the last public call: [op, arg, st, ret, kind, ub, w, seq,
          \* rot, thr]
  it,     \* the consumer's iterator: [depth, branch, path_h]
  trip,   \* history: an insert and the remove of its key that follows it
  walk    \* history: the nodes an iterator has been at since its seek

vars == <<root, lt, gt, bf, err, last, it, trip, walk>>

\* The abstractor as an operation that may fail at read failAt finds it.
Mem(failAt) ==
  [root |-> root, lt |-> lt, gt |-> gt, bf |-> bf, err |-> err,
   n |-> 0, w |-> 0, failAt |-> failAt, kind |-> "none", ub |-> FALSE,
   rot |-> <<>>, thr |-> <<>>, bfw |-> {}]

Store(m) ==
  /\ root' = m.root
  /\ lt' = m.lt
  /\ gt' = m.gt
  /\ bf' = m.bf
  /\ err' = m.err

\* The balance factor of the deeper child of the node balance was given.
DeeperBf(c) == c.bf[IF c.bf[c.h] > 0 THEN c.gt[c.h] ELSE c.lt[c.h]]

Called(op, arg, st, r) ==
  last' = [op |-> op, arg |-> arg, st |-> st, ret |-> r.ret,
           kind |-> r.m.kind, ub |-> r.m.ub, w |-> r.m.w, seq |-> <<>>,
           rot |-> [i \in DOMAIN r.m.rot |-> DeeperBf(r.m.rot[i])],
           thr |-> r.m.thr]

\* The nodes reachable from h by less and greater links, at most d deep.
RECURSIVE Reach(_, _, _, _)
Reach(l, g, h, d) ==
  IF h = null \/ d = 0 THEN {}
  ELSE {h} \cup Reach(l, g, l[h], d - 1) \cup Reach(l, g, g[h], d - 1)

InTree == Reach(lt, gt, root, NumNodes)

\* The nodes of the subtree of h in order (less subtree, node, greater
\* subtree), at most d deep.
RECURSIVE InOrder(_, _, _, _)
InOrder(l, g, h, d) ==
  IF h = null \/ d = 0 THEN <<>>
  ELSE InOrder(l, g, l[h], d - 1) \o <<h>> \o InOrder(l, g, g[h], d - 1)

Nodes_InOrder == InOrder(lt, gt, root, NumNodes + 1)

\* The node of the tree with key k, null when there is none.
NodeOfKey(k) ==
  IF \E d \in InTree : KeyOf(d) = k
  THEN CHOOSE d \in InTree : KeyOf(d) = k
  ELSE null

\* The consumer keeps no iterator across a change of the tree: one that
\* was in use is gone, and the next is newly constructed.
NoIter == it' = NewIter /\ walk' = NoWalk

\* An insert starts a round trip; a remove of the key of the node that the
\* insert just before it was handed completes it.
TripStarts(h) ==
  trip' = [phase |-> 1, seq |-> Nodes_InOrder,
           dup |-> NodeOfKey(KeyOf(h)) # null]
TripEnds(k) ==
  trip' = IF trip.phase = 1 /\ last.op = "insert" /\ KeyOf(last.arg) = k
          THEN [trip EXCEPT !.phase = 2]
          ELSE NoTrip

\* The nodes an iterator has been at: h is one more, unless it is null.
Visit(seen, h) == IF h = null THEN seen ELSE Append(seen, h)

\* The consumer owns the nodes that are not in the tree (spec section 3:
\* nodes are created externally; "the consumer is responsible for any
\* reclamation").  insert (lines 674-676) and subst (lines 1103-1105)
\* overwrite all three fields of the node they are handed before reading
\* them, so what a node outside the tree holds is never read by the engine.
\* The consumer is modelled as clearing the fields of every node it gets
\* back: the node remove or subst returns, the nodes purge abandons.
Reclaim(m, hs) ==
  [m EXCEPT !.lt = [h \in Handles |-> IF h \in hs THEN null ELSE m.lt[h]],
            !.gt = [h \in Handles |-> IF h \in hs THEN null ELSE m.gt[h]],
            !.bf = [h \in Handles |-> IF h \in hs THEN 0 ELSE m.bf[h]]]

Returned(r) == IF r.m.err \/ r.ret = null THEN {} ELSE {r.ret}

\* The consumer uses the tree only while no read has failed (spec section
\* 7: after a read error the tree must be treated as invalid).
Usable == ~err /\ ~last.ub

\* The reads at which the storage may fail in a call that makes n reads.
FailAts(fail, n) == IF fail THEN 1..n ELSE {0}

Init ==
  /\ root = null
  /\ lt = [h \in Handles |-> null]
  /\ gt = [h \in Handles |-> null]
  /\ bf = [h \in Handles |-> 0]
  /\ err = FALSE
  /\ last = [op |-> "init", arg |-> 0, st |-> 0, ret |-> null,
             kind |-> "none", ub |-> FALSE, w |-> 0, seq |-> <<>>,
             rot |-> <<>>, thr |-> <<>>]
  /\ it = NewIter
  /\ trip = NoTrip
  /\ walk = NoWalk

Insert(h, fail) ==
  /\ Usable
  /\ h \notin InTree
  /\ \E f \in FailAts(fail, insert(Mem(0), h).m.n) :
       LET r == insert(Mem(f), h)
       IN Store(r.m) /\ Called("insert", h, 0, r)
  /\ TripStarts(h)
  /\ NoIter

Remove(k, fail) ==
  /\ Usable
  /\ \E f \in FailAts(fail, remove(Mem(0), k).m.n) :
       LET r == remove(Mem(f), k)
       IN Store(Reclaim(r.m, Returned(r))) /\ Called("remove", k, 0, r)
  /\ TripEnds(k)
  /\ NoIter

Subst(h, fail) ==
  /\ Usable
  /\ h \notin InTree
  /\ \E f \in FailAts(fail, subst(Mem(0), h).m.n) :
       LET r == subst(Mem(f), h)
       IN Store(Reclaim(r.m, Returned(r))) /\ Called("subst", h, 0, r)
  /\ trip' = NoTrip
  /\ NoIter

Search(k, st, fail) ==
  /\ Usable
  /\ \E f \in FailAts(fail, search(Mem(0), k, st).m.n) :
       LET r == search(Mem(f), k, st)
       IN Store(r.m) /\ Called("search", k, st, r)
  /\ trip' = NoTrip
  /\ UNCHANGED <<it, walk>>

SearchLeast(fail) ==
  /\ Usable
  /\ \E f \in FailAts(fail, search_least(Mem(0)).m.n) :
       LET r == search_least(Mem(f))
       IN Store(r.m) /\ Called("search_least", 0, 0, r)
  /\ trip' = NoTrip
  /\ UNCHANGED <<it, walk>>

SearchGreatest(fail) ==
  /\ Usable
  /\ \E f \in FailAts(fail, search_greatest(Mem(0)).m.n) :
       LET r == search_greatest(Mem(f))
       IN Store(r.m) /\ Called("search_greatest", 0, 0, r)
  /\ trip' = NoTrip
  /\ UNCHANGED <<it, walk>>

\* purge(), line 105.
Purge ==
  /\ Usable
  /\ Store(Reclaim(set_root(Mem(0), null), InTree))
  /\ last' = [op |-> "purge", arg |-> 0, st |-> 0, ret |-> null,
              kind |-> "none", ub |-> FALSE, w |-> 1, seq |-> <<>>,
              rot |-> <<>>, thr |-> <<>>]
  /\ trip' = NoTrip
  /\ NoIter

\* The nodes of S, the least first.
LeastIn(S) == CHOOSE x \in S : \A y \in S : x <= y
RECURSIVE Ascending(_)
Ascending(S) ==
  IF S = {} THEN <<>> ELSE <<LeastIn(S)>> \o Ascending(S \ {LeastIn(S)})

\* build of the nodes of S in ascending order; the nodes the tree held
\* before are abandoned, as by purge.
Build(S, fail) ==
  /\ Usable
  /\ \E f \in FailAts(fail, build(Mem(0), Ascending(S), Cardinality(S)).m.n) :
       LET r == build(Mem(f), Ascending(S), Cardinality(S))
       IN /\ Store(IF r.ret THEN Reclaim(r.m, InTree \ S) ELSE r.m)
          /\ last' = [op |-> "build", arg |-> Cardinality(S), st |-> 0,
                      ret |-> r.ret, kind |-> r.m.kind, ub |-> r.m.ub,
                      w |-> r.m.w, seq |-> Ascending(S), rot |-> <<>>,
                      thr |-> <<>>]
  /\ trip' = NoTrip
  /\ NoIter

\* An iterator operation has left the iterator r.it; last.ret is the node
\* the iterator is at (operator *), null when it is invalid.
Moved(op, arg, st, r) ==
  /\ it' = r.it
  /\ Store(r.m)
  /\ Called(op, arg, st, [m |-> Ub(r.m, operator_deref_bad(r.it)),
                          ret |-> operator_deref(r.m, r.it)])
  /\ trip' = NoTrip

StartIter(k, st, fail) ==
  /\ Usable
  /\ \E f \in FailAts(fail, start_iter(Mem(0), it, k, st).m.n) :
       LET r == start_iter(Mem(f), it, k, st)
       IN Moved("start_iter", k, st, r)
  /\ walk' = NoWalk

StartIterLeast(fail) ==
  /\ Usable
  /\ \E f \in FailAts(fail, start_iter_least(Mem(0), it).m.n) :
       LET r == start_iter_least(Mem(f), it)
       IN /\ Moved("start_iter_least", 0, 0, r)
          /\ walk' = [mode |-> "up",
                      seen |-> Visit(<<>>, operator_deref(r.m, r.it))]

StartIterGreatest(fail) ==
  /\ Usable
  /\ \E f \in FailAts(fail, start_iter_greatest(Mem(0), it).m.n) :
       LET r == start_iter_greatest(Mem(f), it)
       IN /\ Moved("start_iter_greatest", 0, 0, r)
          /\ walk' = [mode |-> "down",
                      seen |-> Visit(<<>>, operator_deref(r.m, r.it))]

OperatorInc(fail) ==
  /\ Usable
  /\ \E f \in FailAts(fail, operator_inc(Mem(0), it).m.n) :
       LET r == operator_inc(Mem(f), it)
       IN /\ Moved("operator_inc", 0, 0, r)
          /\ walk' = IF walk.mode = "up"
                     THEN [walk EXCEPT
                             !.seen = Visit(@, operator_deref(r.m, r.it))]
                     ELSE NoWalk

OperatorDec(fail) ==
  /\ Usable
  /\ \E f \in FailAts(fail, operator_dec(Mem(0), it).m.n) :
       LET r == operator_dec(Mem(f), it)
       IN /\ Moved("operator_dec", 0, 0, r)
          /\ walk' = IF walk.mode = "down"
                     THEN [walk EXCEPT
                             !.seen = Visit(@, operator_deref(r.m, r.it))]
                     ELSE NoWalk

SearchTypes == {EQUAL, LESS, GREATER, LESS_EQUAL, GREATER_EQUAL}

\* The tree engine's modifying operations, on all nodes.
Next ==
  \/ \E h \in Nodes : Insert(h, FALSE)
  \/ \E k \in Keys : Remove(k, FALSE)
  \/ \E h \in Nodes : Subst(h, FALSE)
  \/ SearchLeast(FALSE)
  \/ SearchGreatest(FALSE)
  \/ Purge

Spec == Init /\ [][Next]_vars

\* The searches, on trees of the first node of every key.
NextSearch ==
  \/ \E h \in 1..MaxSearchKey : Insert(h, FALSE)
  \/ \E k \in 1..MaxSearchKey : Remove(k, FALSE)
  \/ \E k \in 1..MaxSearchKey, st \in SearchTypes : Search(k, st, FALSE)
  \/ SearchLeast(FALSE)
  \/ SearchGreatest(FALSE)

SpecSearch == Init /\ [][NextSearch]_vars

\* Every operation with a read that fails.
NextErr ==
  \/ \E h \in NodesUpTo(MaxErrKey), e \in BOOLEAN : Insert(h, e)
  \/ \E k \in 1..MaxErrKey, e \in BOOLEAN : Remove(k, e)
  \/ \E h \in NodesUpTo(MaxErrKey), e \in BOOLEAN : Subst(h, e)
  \/ \E k \in 1..MaxErrKey, st \in SearchTypes, e \in BOOLEAN : Search(k, st, e)
  \/ \E e \in BOOLEAN : SearchLeast(e)
  \/ \E e \in BOOLEAN : SearchGreatest(e)
  \/ \E S \in SUBSET (1..MaxErrKey), e \in BOOLEAN : Build(S, e)

SpecErr == Init /\ [][NextErr]_vars

\* A tree and an iterator over it.
NextIter ==
  \/ \E h \in 1..MaxIterKey : Insert(h, FALSE)
  \/ \E k \in 1..MaxIterKey : Remove(k, FALSE)
  \/ \E k \in 1..MaxIterKey, st \in SearchTypes : StartIter(k, st, FALSE)
  \/ StartIterLeast(FALSE)
  \/ StartIterGreatest(FALSE)
  \/ OperatorInc(FALSE)
  \/ OperatorDec(FALSE)

SpecIter == Init /\ [][NextIter]_vars

\* build of every ascending sequence of nodes, into a tree that holds
\* nothing (a new one, or one the consumer has purged).
NextBuild ==
  \/ \E S \in SUBSET BuildNodes : root = null /\ Build(S, FALSE)
  \/ Purge

SpecBuild == Init /\ [][NextBuild]_vars

\* insert and remove on trees of the first node of every key, and on the
\* trees build leaves.
NextHeight ==
  \/ \E h \in Keys : Insert(h, FALSE)
  \/ \E k \in Keys : Remove(k, FALSE)
  \/ \E S \in SUBSET Keys : root = null /\ Build(S, FALSE)

SpecHeight == Init /\ [][NextHeight]_vars

\* remove with a read that fails, on trees of the first node of every key.
NextRemove ==
  \/ \E h \in Keys : Insert(h, FALSE)
  \/ \E k \in Keys, e \in BOOLEAN : Remove(k, e)

SpecRemove == Init /\ [][NextRemove]_vars

\* insert of nodes in ascending order of their keys: every node handed to
\* insert has a greater key than every node of the tree.  purge empties the
\* tree for the next run.
NextAscending ==
  \/ \E h \in BuildNodes :
       /\ \A d \in InTree : KeyOf(d) < KeyOf(h)
       /\ Insert(h, FALSE)
  \/ Purge

SpecAscending == Init /\ [][NextAscending]_vars

\* Every operation that writes balance factors: insert and build of the
\* first node of every key, subst of all nodes; build is given a tree that
\* holds nothing.
NextWrites ==
  \/ \E h \in Keys : Insert(h, FALSE)
  \/ \E k \in Keys : Remove(k, FALSE)
  \/ \E h \in Nodes : Subst(h, FALSE)
  \/ \E S \in SUBSET Keys : root = null /\ Build(S, FALSE)

SpecWrites == Init /\ [][NextWrites]_vars

\* insert, remove and build of the first node of every key, and an
\* iterator over the trees that hold every key: among them are the trees
\* as high as that many nodes allow.
NextDepth ==
  \/ \E h \in Keys : Insert(h, FALSE)
  \/ \E k \in Keys : Remove(k, FALSE)
  \/ \E S \in SUBSET Keys : root = null /\ Build(S, FALSE)
  \/ \E k \in 1..MaxIterKey, st \in SearchTypes :
       InTree = Keys /\ StartIter(k, st, FALSE)
  \/ InTree = Keys /\ StartIterLeast(FALSE)
  \/ InTree = Keys /\ StartIterGreatest(FALSE)
  \/ InTree = Keys /\ OperatorInc(FALSE)
  \/ InTree = Keys /\ OperatorDec(FALSE)

SpecDepth == Init /\ [][NextDepth]_vars

\* ------------------------------------------------- what the claims use ----

Larger(a, b) == IF a > b THEN a ELSE b

\* The number of nodes on the longest path from h down, at most d.
RECURSIVE Height(_, _, _, _)
Height(l, g, h, d) ==
  IF h = null \/ d = 0 THEN 0
  ELSE 1 + Larger(Height(l, g, l[h], d - 1), Height(l, g, g[h], d - 1))

Keys_InOrder == [i \in 1..Len(Nodes_InOrder) |-> KeyOf(Nodes_InOrder[i])]
TreeHeight == Height(lt, gt, root, NumNodes + 1)

\* ---------------------------------------------------------------- C1 ----

\* C1: after any sequence of insert, remove and subst calls without a read
\* error, the in-order traversal of the nodes reachable from the root
\* yields strictly ascending keys (so no key occurs twice).
C1_InOrderAscending ==
  \A i \in 1..(Len(Nodes_InOrder) - 1) :
    KeyOf(Nodes_InOrder[i]) < KeyOf(Nodes_InOrder[i + 1])

\* A remove that rebalanced a tree which still holds five nodes, one of
\* them put there by subst.
C1_Witness ==
  /\ last.op = "remove"
  /\ last.ret # null
  /\ Len(Nodes_InOrder) >= 5
  /\ \E h \in InTree : h > MaxKey

\* ---------------------------------------------------------------- C2 ----

\* C2: after any sequence of insert and remove calls without a read error,
\* at the return of every public operation every reachable node has
\* |height(greater) - height(less)| <= 1 and its stored balance factor is
\* height(greater) - height(less).
C2_Balanced ==
  \A h \in InTree :
    /\ bf[h] = Height(lt, gt, gt[h], NumNodes) - Height(lt, gt, lt[h], NumNodes)
    /\ bf[h] \in {-1, 0, 1}

\* remove(4) on the tree of keys 1..7, which leaves 1,2,3,5,6,7 at height 3.
C2_Witness ==
  /\ last.op = "remove"
  /\ last.arg = 4
  /\ last.ret # null
  /\ Keys_InOrder = <<1, 2, 3, 5, 6, 7>>
  /\ TreeHeight = 3

\* ---------------------------------------------------------------- C3 ----

\* What C3 asks of one step, last' being the call that made it.
C3_Step ==
  /\ (last'.op = "insert" /\ NodeOfKey(KeyOf(last'.arg)) = null)
       => /\ last'.ret = last'.arg
          /\ InTree' = InTree \cup {last'.arg}
  /\ (last'.op = "remove" /\ NodeOfKey(last'.arg) # null)
       => /\ last'.ret = NodeOfKey(last'.arg)
          /\ InTree' = InTree \ {last'.ret}
          /\ root' # last'.ret
          /\ \A n \in InTree' : lt'[n] # last'.ret /\ gt'[n] # last'.ret
  /\ (last'.op = "insert" /\ NodeOfKey(KeyOf(last'.arg)) # null)
       => InTree' = InTree
  /\ (last'.op = "remove" /\ NodeOfKey(last'.arg) = null)
       => InTree' = InTree

\* C3: the tree refines a set of nodes.  In every step, with the set of
\* nodes reachable from the root as the reference set: insert(h) of a key
\* that is not there returns h and adds exactly h; remove(k) of a key that
\* is there returns the node with key k and removes exactly that node,
\* which no reachable node links to afterwards; every other node stays
\* reachable, and an insert or remove of any other key leaves the set.
C3_RefinesSet == [][C3_Step]_vars

\* A remove of a node with two children from a tree of at least six nodes.
C3_Witness ==
  /\ last.op = "remove"
  /\ last.ret # null
  /\ Cardinality(InTree) >= 5
  /\ last.w >= 8

\* ---------------------------------------------------------------- C4 ----

\* The node of S with the greatest key, the node of S with the least key;
\* null when S is empty.
GreatestOf(S) ==
  IF S = {} THEN null
  ELSE CHOOSE d \in S : \A e \in S : KeyOf(e) <= KeyOf(d)

LeastOf(S) ==
  IF S = {} THEN null
  ELSE CHOOSE d \in S : \A e \in S : KeyOf(d) <= KeyOf(e)

\* What search(k, st) is to return on the present tree.
C4_Expected(k, st) ==
  CASE st = EQUAL -> NodeOfKey(k)
    [] st = LESS -> GreatestOf({d \in InTree : KeyOf(d) < k})
    [] st = GREATER -> LeastOf({d \in InTree : KeyOf(d) > k})
    [] st = LESS_EQUAL -> GreatestOf({d \in InTree : KeyOf(d) <= k})
    [] st = GREATER_EQUAL -> LeastOf({d \in InTree : KeyOf(d) >= k})

\* C4: on every tree and for every key k, search(k, EQUAL) returns the node
\* with key k or null; LESS the node with the greatest key < k; GREATER the
\* node with the least key > k; LESS_EQUAL the node with the greatest key
\* <= k; GREATER_EQUAL the node with the least key >= k; null when no node
\* qualifies.  search writes nothing.
C4_SearchFinds ==
  last.op = "search"
    => /\ last.ret = C4_Expected(last.arg, last.st)
       /\ last.w = 0

\* A LESS_EQUAL search of a key that is not there, answered by a node that
\* is neither the root nor the last node the descent looked at.
C4_Witness ==
  /\ last.op = "search"
  /\ last.st = LESS_EQUAL
  /\ last.ret # null
  /\ KeyOf(last.ret) < last.arg
  /\ last.ret # root
  /\ gt[last.ret] # null
  /\ Cardinality(InTree) >= 5

\* ---------------------------------------------------------------- C5 ----

\* The last call gave what a call that failed gives: false from build, null
\* from every other operation.
GaveUp == IF last.op = "build" THEN last.ret = FALSE ELSE last.ret = null

\* C5: when read_error is raised at any read of a link or
\* of a balance factor that insert, search, search_least, search_greatest,
\* remove, subst or build makes, the operation returns null (build: false)
\* and read_error() is true afterwards.
C5_AnyRead ==
  last.kind \in {"access", "hint", "bf"} => GaveUp /\ err

\* What the operations do keep of it: when read_error is raised at a read of
\* a link that the operation makes to go on to the child (get_less or
\* get_greater with access = true), the operation returns null (build:
\* false); and read_error() is true after an operation in which any read
\* has failed.
C5_AccessRead ==
  /\ last.kind # "none" => err
  /\ last.kind = "access" => GaveUp

\* remove has given up where it was turning the links of the path round
\* (at least two of them were already written).
AccessRead_Seen ==
  /\ last.op = "remove"
  /\ last.kind = "access"
  /\ last.w >= 2
  /\ last.ret = null
  /\ err

\* ---------------------------------------------------------------- C6 ----

\* The tree is what it was: the root and every field of every node of it.
TreeUntouched ==
  /\ root' = root
  /\ \A n \in InTree : lt'[n] = lt[n] /\ gt'[n] = gt[n] /\ bf'[n] = bf[n]

\* What C6 asks of one step, last' being the call that made it.
C6_Step ==
  (last'.op = "insert" /\ NodeOfKey(KeyOf(last'.arg)) # null)
    => /\ last'.ret = NodeOfKey(KeyOf(last'.arg))
       /\ last'.ret # last'.arg
       /\ TreeUntouched
       /\ last'.arg \notin InTree'

\* C6: insert(h), when a node with the key of h is in the tree, returns that
\* node and leaves the tree as it was: the same root, the same links and
\* balance factors on every node reachable before, and h not reachable.
C6_DuplicateInsert == [][C6_Step]_vars

\* A duplicate of a node that is not the root has been handed to insert.
C6_Witness ==
  /\ last.op = "insert"
  /\ last.ret \notin {null, last.arg, root}
  /\ KeyOf(last.ret) = KeyOf(last.arg)
  /\ Cardinality(InTree) >= 4

\* ---------------------------------------------------------------- C7 ----

\* What C7 asks of one step, last' being the call that made it.
C7_Step ==
  /\ (last'.op = "remove" /\ NodeOfKey(last'.arg) = null)
       => last'.ret = null /\ last'.w = 0 /\ TreeUntouched
  /\ (last'.op = "subst" /\ NodeOfKey(KeyOf(last'.arg)) = null)
       => /\ last'.ret = null /\ last'.w = 0 /\ TreeUntouched
          /\ lt'[last'.arg] = lt[last'.arg]
          /\ gt'[last'.arg] = gt[last'.arg]
          /\ bf'[last'.arg] = bf[last'.arg]

\* C7: remove(k) when no node has key k, and subst(n) when no node has the
\* key of n, return null and write no link, no balance factor and no root.
C7_MissingKey == [][C7_Step]_vars

\* subst of a key that is missing from a tree of three levels.
C7_Witness ==
  /\ last.op = "subst"
  /\ last.ret = null
  /\ last.w = 0
  /\ TreeHeight >= 3

\* ---------------------------------------------------------------- C8 ----

\* The link v of a node other than d, once n has taken the place of d.
Renamed(v, d, n) == IF v = d THEN n ELSE v

\* What C8 asks of one step, last' being the call that made it.
C8_Step ==
  (last'.op = "subst" /\ NodeOfKey(KeyOf(last'.arg)) # null)
    => /\ last'.ret = NodeOfKey(KeyOf(last'.arg))
       /\ lt'[last'.arg] = lt[last'.ret]
       /\ gt'[last'.arg] = gt[last'.ret]
       /\ bf'[last'.arg] = bf[last'.ret]
       /\ root' = Renamed(root, last'.ret, last'.arg)
       /\ \A p \in InTree \ {last'.ret} :
            /\ lt'[p] = Renamed(lt[p], last'.ret, last'.arg)
            /\ gt'[p] = Renamed(gt[p], last'.ret, last'.arg)
            /\ bf'[p] = bf[p]
       /\ \A x \in Nodes \ (InTree \cup {last'.arg}) :
            lt'[x] = lt[x] /\ gt'[x] = gt[x] /\ bf'[x] = bf[x]
       /\ last'.w = 4
       /\ Keys_InOrder' = Keys_InOrder
       /\ InTree' = (InTree \ {last'.ret}) \cup {last'.arg}

\* C8: subst(n), when a node d with the key of n is in the tree, returns d;
\* n takes the links and the balance factor of d and its place under its
\* parent or at the root; no other node is written; the shape and the
\* in-order keys are what they were; d is not reachable any more.
C8_Subst == [][C8_Step]_vars

\* subst has replaced a node that has a parent and two children.
C8_Witness ==
  /\ last.op = "subst"
  /\ last.ret # null
  /\ root # last.arg
  /\ lt[last.arg] # null
  /\ gt[last.arg] # null

\* ---------------------------------------------------------------- C9 ----

\* C9 as it is stated: for every node h that is not in the tree, insert(h)
\* followed by remove(key(h)) leaves the in-order sequence of nodes the tree
\* had before the insert.
C9_AnyNode == trip.phase = 2 => Nodes_InOrder = trip.seq

\* C9, amended: for every node h whose key is the key of no node of the
\* tree, insert(h) followed by remove(key(h)) leaves the in-order sequence
\* of nodes the tree had before the insert.
C9_RoundTrip == (trip.phase = 2 /\ ~trip.dup) => Nodes_InOrder = trip.seq

\* A round trip on a tree of five nodes, the remove of which had to do more
\* than unlink a leaf.
C9_Witness ==
  /\ trip.phase = 2
  /\ ~trip.dup
  /\ Len(trip.seq) >= 5
  /\ last.ret # null
  /\ last.w >= 6

\* --------------------------------------------------------------- C10 ----

\* search_least, then search(key of the node before, GREATER) until null.
RECURSIVE ThreadFrom(_, _)
ThreadFrom(h, n) ==
  IF h = null \/ n = 0 THEN <<>>
  ELSE <<h>> \o ThreadFrom(search(Mem(0), KeyOf(h), GREATER).ret, n - 1)

Threading == ThreadFrom(search_least(Mem(0)).ret, NumNodes + 1)

Reverse(q) == [i \in 1..Len(q) |-> q[Len(q) + 1 - i]]

\* The iterator has been at the nodes of q, one after the other from the
\* first, is at the last of them now, and has come to the end of q when it
\* is invalid.
WalkedAlong(q) ==
  /\ ~last.ub
  /\ Len(walk.seen) <= Len(q)
  /\ walk.seen = SubSeq(q, 1, Len(walk.seen))
  /\ IF it.depth = InvalidDepth
     THEN walk.seen = q /\ last.ret = null
     ELSE walk.seen # <<>> /\ last.ret = walk.seen[Len(walk.seen)]

\* C10: start_iter_least and then ++ until the iterator is invalid is at
\* every node once, in ascending order of the keys: the nodes search_least
\* and then search(key of the node before, GREATER) give.
\* start_iter_greatest and then -- is at the same nodes in the reverse
\* order.  On the empty tree both leave the iterator invalid.
C10_Enumerates ==
  /\ walk.mode # "none" => Threading = Nodes_InOrder /\ C1_InOrderAscending
  /\ walk.mode = "up" => WalkedAlong(Threading)
  /\ walk.mode = "down" => WalkedAlong(Reverse(Threading))
  /\ (last.op \in {"start_iter_least", "start_iter_greatest"} /\ root = null)
       => it.depth = InvalidDepth /\ last.ret = null

\* The iterator has gone through a tree of MaxIterKey nodes with ++ and is
\* invalid.
C10_Witness ==
  /\ walk.mode = "up"
  /\ it.depth = InvalidDepth
  /\ last.op = "operator_inc"
  /\ Len(walk.seen) = MaxIterKey

\* --------------------------------------------------------------- C11 ----

\* C11: on every valid tree, for every key k and every search type st of
\* EQUAL, LESS, LESS_EQUAL, GREATER, GREATER_EQUAL, the iterator right after
\* start_iter(tree, k, st) dereferences to the handle search(k, st) returns,
\* and it is invalid (depth is the invalid value, operator * gives null)
\* exactly when search returns null.
C11_SeekIsSearch ==
  last.op = "start_iter" =>
    /\ ~last.ub
    /\ last.ret = search(Mem(0), last.arg, last.st).ret
    /\ operator_deref(Mem(0), it) = last.ret
    /\ (it.depth = InvalidDepth) = (search(Mem(0), last.arg, last.st).ret = null)

\* A seek for the node after a key that is in the tree, which ends at a
\* node that is not the root and not a child of the root.
C11_Witness ==
  /\ last.op = "start_iter"
  /\ last.st = GREATER
  /\ NodeOfKey(last.arg) # null
  /\ last.ret # null
  /\ it.depth >= 2

\* --------------------------------------------------------------- C12 ----

\* The least e with 2^e >= n: the ceiling of log2(n).
CeilLog2(n) == CHOOSE e \in 0..n : 2 ^ e >= n /\ (e = 0 \/ 2 ^ (e - 1) < n)

\* C12: for every n >= 1 and every sequence of n distinct nodes in
\* ascending order of their keys, build(seq, n) returns true and leaves a
\* tree whose nodes in order are the sequence, whose height is
\* ceil(log2(n + 1)), and in which every stored balance factor is 0 or +1
\* and is the height of the node's greater subtree minus the height of its
\* less subtree.
C12_BuildShape ==
  (last.op = "build" /\ last.arg >= 1) =>
    /\ last.ret = TRUE
    /\ ~last.ub
    /\ Nodes_InOrder = last.seq
    /\ TreeHeight = CeilLog2(last.arg + 1)
    /\ \A h \in InTree :
         /\ bf[h] \in {0, 1}
         /\ bf[h] = Height(lt, gt, gt[h], NumNodes)
                      - Height(lt, gt, lt[h], NumNodes)

\* A build of MaxBuildKey nodes; some node of the tree it leaves has the
\* balance factor +1 and two children.
C12_Witness ==
  /\ last.op = "build"
  /\ last.arg = MaxBuildKey
  /\ \E h \in InTree : bf[h] = 1 /\ lt[h] # null /\ gt[h] # null

\* --------------------------------------------------------------- C13 ----

\* The last call was build of the ten nodes of keys 1..10, in ascending
\* order.
BuiltOneToTen ==
  /\ last.op = "build"
  /\ last.arg = 10
  /\ [i \in 1..Len(last.seq) |-> KeyOf(last.seq[i])] = [i \in 1..10 |-> i]

\* C13 as it is stated: build of the ten nodes of keys 1..10 in ascending
\* order (n = 10) gives a tree with the keys 1..10 in order, the height 4
\* and the root key 6.
C13_RootSix ==
  BuiltOneToTen =>
    /\ last.ret = TRUE
    /\ Keys_InOrder = [i \in 1..10 |-> i]
    /\ TreeHeight = 4
    /\ KeyOf(root) = 6

\* C13, amended: build of the ten nodes of keys 1..10 in ascending order
\* (n = 10) gives a tree with the keys 1..10 in order, the height 4 and
\* the root key 5: the less subtree of the root holds the four nodes of
\* keys 1..4, the greater subtree the five nodes of keys 6..10.
C13_RootFive ==
  BuiltOneToTen =>
    /\ last.ret = TRUE
    /\ Keys_InOrder = [i \in 1..10 |-> i]
    /\ TreeHeight = 4
    /\ KeyOf(root) = 5
    /\ Len(InOrder(lt, gt, lt[root], NumNodes)) = 4
    /\ Len(InOrder(lt, gt, gt[root], NumNodes)) = 5

\* build of the nodes of keys 1..10 has returned true.
C13_Witness == BuiltOneToTen /\ last.ret = TRUE /\ root # null

\* --------------------------------------------------------------- C14 ----

\* N(h): N(1) = 1, N(2) = 2, N(h) = N(h - 1) + N(h - 2) + 1.
RECURSIVE MinNodes(_)
MinNodes(h) ==
  IF h <= 0 THEN 0
  ELSE IF h <= 2 THEN h
  ELSE MinNodes(h - 1) + MinNodes(h - 2) + 1

\* C14: after any sequence of insert and remove calls, and after build,
\* that leaves m >= 1 nodes in the tree, a tree of height h (the number of
\* nodes on the longest path from the root to a leaf) holds at least N(h)
\* nodes, with N(1) = 1, N(2) = 2, N(h) = N(h - 1) + N(h - 2) + 1; for the
\* m of the model this gives h <= 1.4405 * log2(m + 2).
C14_HeightBound ==
  root # null => Cardinality(InTree) >= MinNodes(TreeHeight)

\* An insert has left a tree of height 4 with the fewest nodes it can have.
C14_Witness ==
  /\ last.op = "insert"
  /\ TreeHeight = 4
  /\ Cardinality(InTree) = MinNodes(4)

\* --------------------------------------------------------------- C15 ----

\* Every node of the subtree of h has a stored balance factor that is the
\* height of its greater subtree minus the height of its less subtree, and
\* is -1, 0 or +1.
AvlValid(l, g, b, h) ==
  \A x \in Reach(l, g, h, NumNodes) :
    /\ b[x] \in {-1, 0, 1}
    /\ b[x] = Height(l, g, g[x], NumNodes) - Height(l, g, l[x], NumNodes)

\* What balance is called on: c is a call, [h, lt, gt, bf].
BalancePre(c) ==
  /\ AvlValid(c.lt, c.gt, c.bf, c.lt[c.h])
  /\ AvlValid(c.lt, c.gt, c.bf, c.gt[c.h])
  /\ Height(c.lt, c.gt, c.gt[c.h], NumNodes)
       - Height(c.lt, c.gt, c.lt[c.h], NumNodes) \in {-2, 2}
  /\ c.bf[c.h] \in {-1, 1}

\* What balance leaves: b is what it gives for the call c, [m, h].
BalancePost(c, b) ==
  /\ b.h # null
  /\ InOrder(b.m.lt, b.m.gt, b.h, NumNodes) = InOrder(c.lt, c.gt, c.h, NumNodes)
  /\ AvlValid(b.m.lt, b.m.gt, b.m.bf, b.h)
  /\ IF DeeperBf(c) = 0
     THEN /\ Height(b.m.lt, b.m.gt, b.h, NumNodes)
               = Height(c.lt, c.gt, c.h, NumNodes)
          /\ b.m.bf[b.h] # 0
     ELSE Height(b.m.lt, b.m.gt, b.h, NumNodes)
            = Height(c.lt, c.gt, c.h, NumNodes) - 1

\* balance applied to the node and the fields of the call c.
BalanceOf(c) ==
  balance([Mem(0) EXCEPT !.lt = c.lt, !.gt = c.gt, !.bf = c.bf], c.h)

\* The calls of balance an insert or a remove makes.
BalanceCalls(op, arg) ==
  IF op = "insert" THEN insert(Mem(0), arg).m.rot
  ELSE IF op = "remove" THEN remove(Mem(0), arg).m.rot
  ELSE <<>>

CallsOf(q) == {q[i] : i \in DOMAIN q}

C15_Step ==
  \A c \in CallsOf(BalanceCalls(last'.op, last'.arg)) :
    BalancePre(c) /\ BalancePost(c, BalanceOf(c))

\* C15: whenever insert or remove calls balance(h), the two subtrees of h
\* are valid AVL trees whose heights differ by exactly 2, and balance
\* returns the root of a subtree that has the same nodes in order as
\* before, in which every stored balance factor is the actual height
\* difference and is -1, 0 or +1.  The height of the subtree is one less
\* than before, except when the deeper child had the balance factor 0: the
\* height is then unchanged and the root returned has a balance factor
\* that is not 0 (so that remove stops propagating).
C15_Balance == [][C15_Step]_vars

\* A remove has called balance on a node whose deeper child had the balance
\* factor 0.
C15_Witness ==
  /\ last.op = "remove"
  /\ last.rot = <<0>>
  /\ last.ret # null

\* --------------------------------------------------------------- C16 ----

\* The link of the node h that remove had overwritten: t is [h, up].
LinkOf(t) == IF t.up THEN gt[t.h] ELSE lt[t.h]

\* The node whose parent the link of last.thr[i] was overwritten with.
ListParent(i) == IF i = 1 THEN null ELSE last.thr[i - 1].h

Distinct(q) == \A i, j \in DOMAIN q : q[i] = q[j] => i = j

\* Every link remove had overwritten with the parent of its node refers to
\* a child of the node again; no node that can be reached links to one of
\* its ancestors, and no node links to the root.
Rethreaded ==
  /\ \A i \in DOMAIN last.thr :
       /\ last.thr[i].h \in InTree
       /\ LinkOf(last.thr[i]) # null
       /\ LinkOf(last.thr[i]) # ListParent(i)
       /\ i < Len(last.thr) => LinkOf(last.thr[i]) = last.thr[i + 1].h
                                \/ last.rot # <<>>
  /\ Distinct(Nodes_InOrder)
  /\ \A x \in InTree : lt[x] # root /\ gt[x] # root

PlaceIn(q, h) ==
  IF \E i \in DOMAIN q : q[i] = h THEN CHOOSE i \in DOMAIN q : q[i] = h ELSE 0

\* The node after h, and the node before h, in order; null when none.
SuccessorOf(h) ==
  IF PlaceIn(Nodes_InOrder, h) \in 1..(Len(Nodes_InOrder) - 1)
  THEN Nodes_InOrder[PlaceIn(Nodes_InOrder, h) + 1] ELSE null
PredecessorOf(h) ==
  IF PlaceIn(Nodes_InOrder, h) \in 2..Len(Nodes_InOrder)
  THEN Nodes_InOrder[PlaceIn(Nodes_InOrder, h) - 1] ELSE null

\* A step of ++ from the node cur.
IncFrom(cur) ==
  /\ cur # null
  /\ ~last'.ub
  /\ last'.ret = SuccessorOf(cur)
  /\ (it'.depth = InvalidDepth) = (SuccessorOf(cur) = null)
  /\ SuccessorOf(cur) # null =>
       operator_deref(Mem(0), operator_dec(Mem(0), it').it) = cur

\* A step of -- from the node cur.
DecFrom(cur) ==
  /\ cur # null
  /\ ~last'.ub
  /\ last'.ret = PredecessorOf(cur)
  /\ (it'.depth = InvalidDepth) = (PredecessorOf(cur) = null)
  /\ PredecessorOf(cur) # null =>
       operator_deref(Mem(0), operator_inc(Mem(0), it').it) = cur

C17_Step ==
  /\ (last'.op = "operator_inc" /\ it.depth # InvalidDepth)
       => IncFrom(operator_deref(Mem(0), it))
  /\ (last'.op = "operator_dec" /\ it.depth # InvalidDepth)
       => DecFrom(operator_deref(Mem(0), it))

\* C17: on an unmodified valid tree, from every valid iterator position a
\* seek and then any sequence of ++ and -- steps has reached, ++ moves the
\* iterator to the node after the current one in order and -- to the node
\* before it; ++ on the greatest node and -- on the least node make the
\* iterator invalid; and ++ followed by -- (when ++ did not invalidate)
\* dereferences to the original node again, as does -- followed by ++.
C17_Steps == [][C17_Step]_vars

\* A ++ has gone back up to the root, from the greatest node of the less
\* subtree of a tree of MaxIterKey nodes, after a start_iter and other
\* steps.
C17_Witness ==
  /\ last.op = "operator_inc"
  /\ it.depth = 0
  /\ last.ret = root
  /\ walk.mode = "none"
  /\ Cardinality(InTree) = MaxIterKey

\* --------------------------------------------------------------- C18 ----

\* The node the entry i of the path hangs from: the root, or the entry
\* before it.
PathParent(i) == IF i = 0 THEN root ELSE it.path_h[i - 1]

\* C18: for every valid iterator (depth is not the invalid value) that
\* start_iter, start_iter_least or start_iter_greatest has produced and any
\* sequence of ++ and -- on the unmodified tree has moved, the entries
\* path_h[0..depth-1] are all non-null and, with branch[0..depth-1], are
\* the path from the root to the current node: path_h[0] is the child of
\* the root on the side branch[0] (true: greater), and for 0 < i < depth
\* path_h[i] is the child of path_h[i-1] on the side branch[i].
C18_PathIsPath ==
  it.depth # InvalidDepth =>
    /\ it.depth <= max_depth - 1
    /\ \A i \in 0..(it.depth - 1) :
         /\ it.path_h[i] \in Nodes
         /\ it.branch[i] \in {0, 1}
         /\ PathParent(i) \in Nodes
         /\ it.path_h[i] = IF it.branch[i] = 1 THEN gt[PathParent(i)]
                           ELSE lt[PathParent(i)]

\* A -- has left the iterator two levels down, by a less branch and then
\* a greater branch.
C18_Witness ==
  /\ last.op = "operator_dec"
  /\ it.depth = 2
  /\ it.branch[0] = 0
  /\ it.branch[1] = 1
  /\ last.ret = gt[lt[root]]

\* --------------------------------------------------------------- C19 ----

\* The nodes the search for the key k goes through from h down.
RECURSIVE PathTo(_, _, _)
PathTo(h, k, d) ==
  IF h = null \/ d = 0 THEN <<>>
  ELSE IF k = KeyOf(h) THEN <<h>>
  ELSE <<h>> \o PathTo(IF k < KeyOf(h) THEN lt[h] ELSE gt[h], k, d - 1)

\* The place in the path p of its deepest node with a balance factor that
\* is not 0, 0 when there is none.
UnbalIn(p) ==
  IF \E i \in DOMAIN p : bf[p[i]] # 0
  THEN CHOOSE i \in DOMAIN p :
         bf[p[i]] # 0 /\ \A j \in DOMAIN p : bf[p[j]] # 0 => j <= i
  ELSE 0

\* The branch the search for k takes at the node x.
BranchAt(x, k) == IF k < KeyOf(x) THEN -1 ELSE 1

\* The node x keeps its three fields.
Kept(x) == lt'[x] = lt[x] /\ gt'[x] = gt[x] /\ bf'[x] = bf[x]

\* The nodes of the path p after its place u (the new node h after them)
\* that take part in the rotation at p[u]: the child of p[u] on the path
\* and, when the rotation is a double one, the child of that child.
InRotation(p, u, h, k) ==
  IF last'.rot = <<>> \/ u = 0 THEN {}
  ELSE IF BranchAt((p \o <<h>>)[u + 1], k) = BranchAt(p[u], k)
  THEN {(p \o <<h>>)[u + 1]}
  ELSE {(p \o <<h>>)[u + 1], (p \o <<h>>)[u + 2]}

\* The root of the subtree the rotation at p[u] leaves: the child of p[u]
\* on the path, or the child of that child when the rotation is a double
\* one; p[u] itself when there is no rotation.
SubtreeRoot(p, u, h, k) ==
  IF last'.rot = <<>> THEN p[u]
  ELSE IF BranchAt((p \o <<h>>)[u + 1], k) = BranchAt(p[u], k)
  THEN (p \o <<h>>)[u + 1]
  ELSE (p \o <<h>>)[u + 2]

\* The parent x of unbal keeps its balance factor and its other link, and
\* its link to unbal refers to the root of the subtree as it is now.
ParentOfUnbal(x, sub, k) ==
  /\ bf'[x] = bf[x]
  /\ IF BranchAt(x, k) < 0
     THEN lt'[x] = sub /\ gt'[x] = gt[x]
     ELSE gt'[x] = sub /\ lt'[x] = lt[x]

\* The proper ancestors of the node p[u]: they keep their balance factors
\* and their links, but for the link of its parent to it (or the root
\* handle).
AboveUnbal(p, u, h, k) ==
  /\ \A i \in 1..(u - 2) : Kept(p[i])
  /\ u >= 2 => ParentOfUnbal(p[u - 1], SubtreeRoot(p, u, h, k), k)
  /\ root' = IF u = 1 THEN SubtreeRoot(p, u, h, k) ELSE root

\* The nodes that are not on the path, and are not the new node, keep
\* their fields.
OffPath(p, h) == \A x \in Nodes \ ({p[i] : i \in DOMAIN p} \cup {h}) : Kept(x)

\* The frame of insert(h) as C19 states it, for the path p and the place
\* u of unbal in it.
FrameAsStated(p, u, h, k) ==
  /\ AboveUnbal(p, u, h, k)
  /\ \A i \in (u + 1)..Len(p) :
       bf[p[i]] = 0 /\ bf'[p[i]] = BranchAt(p[i], k)
  /\ OffPath(p, h)

\* The same, but for the nodes between unbal and h that take part in the
\* rotation at unbal.
FrameButRotated(p, u, h, k) ==
  /\ AboveUnbal(p, u, h, k)
  /\ \A i \in (u + 1)..Len(p) :
       /\ bf[p[i]] = 0
       /\ p[i] \notin InRotation(p, u, h, k) => bf'[p[i]] = BranchAt(p[i], k)
       /\ bf'[p[i]] \in {-1, 0, 1}
  /\ OffPath(p, h)

\* An insert of a node whose key is not in the tree has been made.
InsertedNew ==
  /\ last'.op = "insert"
  /\ NodeOfKey(KeyOf(last'.arg)) = null
  /\ root # null

\* C19 as it is stated: in insert(h) with no duplicate, with unbal the
\* deepest node on the search path whose balance factor was not 0 before
\* the insert (if any), every proper ancestor of unbal keeps its balance
\* factor and its links, except that the link of the parent of unbal (or
\* the root handle when unbal is the root) is re-pointed to the subtree
\* root the rotation returns; every node on the path strictly between
\* unbal (or from the root inclusive, when there is no unbal) and h had the
\* balance factor 0 and ends with +1 or -1 according to the branch taken;
\* nodes not on the search path are written only if they take part in the
\* rotation at unbal.
C19_AsStated ==
  [][InsertedNew =>
       FrameAsStated(PathTo(root, KeyOf(last'.arg), NumNodes),
                     UnbalIn(PathTo(root, KeyOf(last'.arg), NumNodes)),
                     last'.arg, KeyOf(last'.arg))]_vars

\* C19, amended: the same, except that the nodes strictly between unbal
\* and h that take part in the rotation at unbal (the child of unbal on
\* the path and, in a double rotation, the child of that child on the
\* path) end with the balance factors balance gives them.
C19_Frame ==
  [][InsertedNew =>
       FrameButRotated(PathTo(root, KeyOf(last'.arg), NumNodes),
                       UnbalIn(PathTo(root, KeyOf(last'.arg), NumNodes)),
                       last'.arg, KeyOf(last'.arg))]_vars

\* An insert of a seventh node has called balance: on a node that is not
\* the root, as a tree of six nodes whose root is at +1 or -1 has a less
\* or greater subtree too full for one more node to unbalance the root.
C19_Witness ==
  /\ last.op = "insert"
  /\ last.rot # <<>>
  /\ last.ret = last.arg
  /\ Cardinality(InTree) = 7

\* --------------------------------------------------------------- C20 ----

\* The number of nodes of the subtree of h.
SizeOf(h) == Cardinality(Reach(lt, gt, h, NumNodes))

\* C20: in the tree build produces, every node whose subtree holds m nodes
\* has a less subtree of exactly floor((m - 1) / 2) nodes and a greater
\* subtree of exactly ceil((m - 1) / 2) nodes (the extra node, when m - 1
\* is odd, is always on the greater side); the root is the
\* (floor((n - 1) / 2) + 1)-th node of the input sequence.
C20_BuildSplit ==
  (last.op = "build" /\ last.arg >= 1) =>
    /\ last.ret = TRUE
    /\ Cardinality(InTree) = last.arg
    /\ \A h \in InTree :
         /\ SizeOf(lt[h]) = (SizeOf(h) - 1) \div 2
         /\ SizeOf(gt[h]) = (SizeOf(h) - 1) - ((SizeOf(h) - 1) \div 2)
    /\ root = last.seq[((last.arg - 1) \div 2) + 1]

\* A build of 8 nodes: the root has 3 nodes on its less side and 4 on its
\* greater side, and the root of these 4 has 1 and 2.
C20_Witness ==
  /\ last.op = "build"
  /\ last.arg = 8
  /\ SizeOf(lt[root]) = 3
  /\ SizeOf(gt[root]) = 4
  /\ SizeOf(lt[gt[root]]) = 1
  /\ SizeOf(gt[gt[root]]) = 2

\* --------------------------------------------------------------- C21 ----

\* The tree holds exactly the nodes of keys 1..n.  Under SpecAscending such
\* a tree was made by insert of 1, 2, .., n in this order into an empty
\* tree: the keys only ascend, and purge is the only way back.
HoldsOneTo(n) == InTree = 1..n

\* The perfect tree of height k: root key 2^(k-1), height k, in-order
\* sequence 1..2^k-1, every stored balance factor 0.
PerfectOf(k) ==
  /\ root # null
  /\ KeyOf(root) = 2 ^ (k - 1)
  /\ TreeHeight = k
  /\ Keys_InOrder = [i \in 1..(2 ^ k - 1) |-> i]
  /\ \A h \in InTree : bf[h] = 0

\* The k with 2^k - 1 within the keys.
PerfectSizes == {k \in 1..max_depth : 2 ^ k - 1 <= MaxKey}

\* C21: inserting nodes with keys 1, 2, .., 2^k - 1 in ascending order into
\* an empty tree yields the perfect tree: root key 2^(k-1), height k,
\* in-order sequence 1..2^k-1, and every stored balance factor 0.
C21_AscendingPerfect ==
  \A k \in PerfectSizes : HoldsOneTo(2 ^ k - 1) => PerfectOf(k)

\* insert of 7, after 1..6, has returned.
C21_Witness ==
  /\ last.op = "insert"
  /\ last.arg = 7
  /\ last.ret = 7
  /\ HoldsOneTo(7)
  /\ 3 \in PerfectSizes

\* --------------------------------------------------------------- C22 ----

\* The abstractor as the operation op leaves it, given the argument arg (for
\* build the sequence seq of arg nodes): a set of one, or of none when op
\* writes no balance factor.
WritesOf(op, arg, seq) ==
  IF op = "insert" THEN {insert(Mem(0), arg).m}
  ELSE IF op = "remove" THEN {remove(Mem(0), arg).m}
  ELSE IF op = "subst" THEN {subst(Mem(0), arg).m}
  ELSE IF op = "build" THEN {build(Mem(0), seq, arg).m}
  ELSE {}

\* The imbalance the caller of balance had in its local variable: the
\* height of the greater subtree minus the height of the less subtree.
Imbalance(c) ==
  Height(c.lt, c.gt, c.gt[c.h], NumNodes)
    - Height(c.lt, c.gt, c.lt[c.h], NumNodes)

C22_Step ==
  \A m \in WritesOf(last'.op, last'.arg, last'.seq) :
    /\ m.bfw \subseteq {-1, 0, 1}
    /\ \A c \in CallsOf(m.rot) :
         /\ c.bf[c.h] \in {-1, 1}
         /\ Imbalance(c) = 2 * c.bf[c.h]

\* C22: no execution of insert, remove, subst, balance or build calls
\* set_balance_factor with a value outside {-1, 0, +1}; balance is entered
\* while the stored balance factor of its node is still the +1 or -1 from
\* before the operation, of the sign of the imbalance of +2 or -2.
C22_StoredInRange == [][C22_Step]_vars

\* A remove has called balance and left six nodes, one of them put there by
\* subst.
C22_Witness ==
  /\ last.op = "remove"
  /\ last.rot # <<>>
  /\ Cardinality(InTree) = 6
  /\ \E h \in InTree : h > MaxKey

\* --------------------------------------------------------------- C23 ----

\* last.ub is latched by every read or write of a bit of a branch or rem
\* bitset at an index outside 0..max_depth-1 and of an entry of path_h at
\* an index outside 0..max_depth-2 (and by a read of a bit or an entry
\* that nothing has written).
C23_Step ==
  (TreeHeight <= max_depth /\ TreeHeight' <= max_depth) => ~last'.ub

\* C23: if the tree height is at most max_depth before and after every
\* operation, no operation (insert, remove, build, start_iter,
\* start_iter_least, start_iter_greatest, ++, --) reads or writes a branch
\* or rem bitset at an index >= max_depth, and no iterator operation reads
\* or writes path_h at an index >= max_depth - 1.
C23_InRange == [][C23_Step]_vars

\* operator ++ has gone down to a node on the last level max_depth allows:
\* the last entry of path_h holds it.
C23_Witness ==
  /\ last.op = "operator_inc"
  /\ TreeHeight = max_depth
  /\ it.depth = max_depth - 1
  /\ last.ret = it.path_h[max_depth - 2]
  /\ last.ret \in Nodes

\* --------------------------------------------------------------- C24 ----

\* What build gives for the sequence seq of n nodes, in a set of one.
BuildOf(seq, n) == {build(Mem(0), seq, n)}

\* build of no node: nothing is read, and the tree is empty.
BuiltNone(r) ==
  /\ r.ret = TRUE
  /\ r.m.n = 0
  /\ r.m.root = null

\* build of n >= 1 nodes has returned true at line 503: p has been
\* dereferenced and advanced n times and never beyond the n-th node, the
\* list of less parents is empty, and the root is h, the root of the
\* subtree made last.
BuiltAll(r, seq, n) ==
  /\ r.done
  /\ r.ret = TRUE
  /\ ~r.m.err
  /\ ~r.m.ub
  /\ r.p = n + 1
  /\ r.less_parent = null
  /\ r.h # null
  /\ r.m.root = r.h
  /\ Reach(r.m.lt, r.m.gt, r.h, NumNodes) = {seq[i] : i \in 1..n}

C24_Step ==
  last'.op = "build" =>
    /\ last'.ret = TRUE
    /\ \A r \in BuildOf(last'.seq, last'.arg) :
         /\ root' = r.m.root
         /\ IF last'.arg = 0 THEN BuiltNone(r)
            ELSE BuiltAll(r, last'.seq, last'.arg)

\* C24: for every n >= 0 and every input sequence of n nodes read without
\* error, build comes to its end and returns true having dereferenced the
\* input sequence exactly n times (each node consumed once, nothing read
\* past the n-th), with its less-parent stack empty at exit and the root
\* set to the last subtree root produced; for n = 0 it reads nothing and
\* leaves the tree empty.
C24_BuildEnds == [][C24_Step]_vars

\* build of nine nodes has returned.
C24_Witness ==
  /\ last.op = "build"
  /\ last.arg = 9
  /\ Len(last.seq) = 9
  /\ last.ret = TRUE
  /\ Cardinality(InTree) = 9

====
